---- MODULE Spec2Model ----
(***************************************************************************)
(* A model of hissdb: the Expression engine (literal parameterization,     *)
(* placeholder allocation, boolean combination and inversion), statement   *)
(* rendering, and the implicit-join resolver over the foreign keys of the  *)
(* tables of a Database.                                                   *)
(*                                                                         *)
(* Values.  A Python dict is a finite function here when only its content  *)
(* matters (placeholders: key -> bound value) and a sequence of entries    *)
(* when its insertion order matters as well (joins, foreign keys, update   *)
(* mappings).  Strings are rendered as sequences of tokens: a token is a   *)
(* keyword, a column reference, a table reference, a placeholder ':n' or   *)
(* an embedded literal.                                                    *)
(***************************************************************************)
EXTENDS Integers, Sequences, FiniteSets, TLC

VARIABLES
    tables,               \* Database._tables: name -> ordered foreign keys
    join_call,            \* the last call of implicit_join and its outcome
    CURRENT_PLACEHOLDER,  \* the module-level placeholder counter
    expr,                 \* the Expression the program holds, if any
    last_op,              \* the last Expression operator applied, its result
    stmt,                 \* the statement the program holds, if any
    objects,              \* the Expression objects made so far, by identity
    attached,             \* the table whose columns the program alters, if any
    database,             \* the Database the program opens and closes, if any
    threads               \* the threads that draw placeholders, if any

vars == <<tables, join_call, CURRENT_PLACEHOLDER, expr, last_op, stmt, objects, attached, database, threads>>

(***************************************************************************)
(* Bounds of the model and constants of the program.                       *)
(***************************************************************************)
MAX_PLACEHOLDER == 9999999

\* the most foreign keys declared in the whole database
MaxForeignKeys == 3

\* the names tables are created under
TableNames == {"t1", "t2", "t3"}

(***************************************************************************)
(* Ordered dicts: sequences of entries [k, v] with distinct keys.          *)
(***************************************************************************)
Range(s) == {s[i] : i \in DOMAIN s}

Keys(d) == [i \in DOMAIN d |-> d[i].k]

HasKey(d, key) == \E i \in DOMAIN d : d[i].k = key

Get(d, key) == d[CHOOSE i \in DOMAIN d : d[i].k = key].v

\* d[key] = val: an existing key keeps its position, a new one goes last
SetItem(d, key, val) ==
    IF HasKey(d, key)
    THEN [i \in DOMAIN d |-> IF d[i].k = key THEN [k |-> key, v |-> val] ELSE d[i]]
    ELSE Append(d, [k |-> key, v |-> val])

\* a.update(b) on dicts whose order does not matter
Merged(a, b) == b @@ a

(***************************************************************************)
(* Arguments of Expression(...).  A Column and a nested Expression are     *)
(* both instances of Expression; a Column binds no placeholder and         *)
(* references its own table.                                               *)
(***************************************************************************)
Col(t, n) == [kind |-> "col", table |-> t, name |-> n]

TableArg(t) == [kind |-> "table", table |-> t]

ExprArg(e) == [kind |-> "expr", e |-> e]

NoneArg == [kind |-> "none"]

\* a variable that holds no Expression
NoExpr == [kind |-> "none"]

Lit(ty, v) == [kind |-> "lit", type |-> ty, v |-> v]

Str(v) == Lit("str", v)

\* an argument of a type Expression has no rendering for (bool, list, ...)
Other(ty) == [kind |-> "other", type |-> ty]

Kw(s) == [kind |-> "kw", s |-> s]

Placeholder(n) == [kind |-> "ph", key |-> n]

NoFunc == ""

NoPrefix == ""

\* Expression._literals: strings that are not converted to placeholders
_literals ==
    {"=", "==", "%", ">", ">=", "<", "<=", "!=", "!<", "!>", "~", "<>",
     "&", "||", "+", "-", "/", "*", ">>", "<<", "LIKE", "NOT", "NOT LIKE",
     "NOT IN", "SELECT", "FROM", "WHERE", "IN", "BETWEEN", "NOT BETWEEN",
     "GLOB", "EXISTS", "NOT EXISTS", "UNIQUE", "NULL", "NOT NULL", "AND",
     "OR", "AS", "(", ")", "DISTINCT", "ALL", "ASC", "DESC"}

\* next_placeholder(): the counter after the call; it returns ':' + counter
next_placeholder(c) == IF c > MAX_PLACEHOLDER THEN 1 ELSE c + 1

\* the counter after n successive calls of next_placeholder (n >= 1): on
\* 1..MAX_PLACEHOLDER+1 one call is a cyclic shift by one
next_placeholder_n(c, n) == ((c + n - 1) % (MAX_PLACEHOLDER + 1)) + 1

IsExpression(arg) == arg.kind \in {"expr", "col"}

ArgPlaceholders(arg) == IF arg.kind = "expr" THEN arg.e.placeholders ELSE << >>

ArgTables(arg) == IF arg.kind = "expr" THEN arg.e.tables ELSE {arg.table}

\* a constructor without the whitelist: every int, float and str is bound
NothingWhitelisted(arg) == TRUE

\* arg not in self._literals
NotWhitelisted(arg) == ~(arg.type = "str" /\ arg.v \in _literals)

(***************************************************************************)
(* Expression.__init__: the loop over args.  acc carries tokens,           *)
(* placeholders, tables and the global counter; error is "" until an       *)
(* argument is rejected.                                                   *)
(***************************************************************************)
InitArg(acc, arg) ==
    IF IsExpression(arg)
    THEN [acc EXCEPT !.placeholders = Merged(@, ArgPlaceholders(arg)),
                     !.tables = @ \cup ArgTables(arg),
                     !.tokens = Append(@, arg)]
    ELSE IF arg.kind = "table"
    THEN [acc EXCEPT !.tables = @ \cup {arg.table},
                     !.tokens = Append(@, arg)]
    ELSE IF arg.kind = "none"
    THEN [acc EXCEPT !.tokens = Append(@, Kw("NULL"))]
    ELSE IF arg.kind = "other" \/ arg.type \notin {"int", "float", "str"}
    THEN [acc EXCEPT !.error = "SyntaxError"]
    ELSE IF NotWhitelisted(arg)
    THEN LET c == next_placeholder(acc.counter)
         IN  [acc EXCEPT !.counter = c,
                         !.placeholders = Merged(@, c :> [type |-> arg.type, v |-> arg.v]),
                         !.tokens = Append(@, Placeholder(c))]
    ELSE [acc EXCEPT !.tokens = Append(@, Kw(arg.v))]

RECURSIVE InitArgs(_, _, _)
InitArgs(acc, args, i) ==
    IF i > Len(args) \/ acc.error # "" THEN acc
    ELSE InitArgs(InitArg(acc, args[i]), args, i + 1)

\* Expression(*args, func, prefix) run with the counter at c: the object
\* built (e), the counter afterwards and the error raised, if any
Expression(args, func, prefix, c) ==
    LET acc == InitArgs([tokens |-> << >>, placeholders |-> << >>, tables |-> {},
                         counter |-> c, error |-> ""], args, 1)
    IN  [e |-> [args |-> args, func |-> func, prefix |-> prefix,
                tokens |-> acc.tokens, placeholders |-> acc.placeholders,
                tables |-> acc.tables],
         counter |-> acc.counter,
         error |-> acc.error]

(***************************************************************************)
(* Expression.__str__ as a sequence of tokens.  Tokens are joined by ','   *)
(* when func is set and by a blank otherwise; collapsing '( ' and ' )'     *)
(* changes blanks only.                                                    *)
(***************************************************************************)
RECURSIVE __str__(_), JoinTokens(_, _, _)
TokenStr(t) == IF t.kind = "expr" THEN __str__(t.e) ELSE <<t>>

JoinTokens(tokens, i, comma) ==
    IF i > Len(tokens) THEN << >>
    ELSE (IF comma /\ i > 1 THEN <<Kw(",")>> ELSE << >>)
         \o TokenStr(tokens[i]) \o JoinTokens(tokens, i + 1, comma)

__str__(e) ==
    LET output == JoinTokens(e.tokens, 1, e.func # NoFunc)
        prefixed == IF e.prefix # NoPrefix THEN <<Kw(e.prefix)>> \o output ELSE output
    IN  IF e.func # NoFunc
        THEN <<Kw(e.func), Kw("(")>> \o prefixed \o <<Kw(")")>>
        ELSE prefixed


(***************************************************************************)
(* Operators of Expression.  Each takes the counter it runs with and       *)
(* yields [e, counter, error] like Expression(...).                        *)
(***************************************************************************)
Failed(error, c) == [e |-> NoExpr, counter |-> c, error |-> error]

\* __eq__, __ne__, __gt__, __lt__, __ge__, __le__: self <op> other
Comparison(self, op, other, c) ==
    Expression(<<self, Str(op), other>>, NoFunc, NoPrefix, c)

__sub__(self, other, c) == Expression(<<self, Str("-"), other>>, NoFunc, NoPrefix, c)

__and__(self, other, c) == Expression(<<self, Str("AND"), other>>, NoFunc, NoPrefix, c)

__or__(self, other, c) ==
    Expression(<<Str("("), self, Str(")"), Str("OR"), Str("("), other, Str(")")>>,
               NoFunc, NoPrefix, c)

\* the pairs with each comparison paired to its mirror image
opposites_mirrored ==
    << <<"LIKE", "NOT LIKE">>, <<"IN", "NOT IN">>, <<"BETWEEN", "NOT BETWEEN">>,
       <<"IS", "IS NOT">>, <<"EXISTS", "NOT EXISTS">>, <<"<>", "=">>,
       <<"==", "<>">>, <<"<", ">">>, <<"<=", ">=">>, <<"AND", "OR">> >>

\* the pairs of __invert__, in the order it tries them
opposites ==
    << <<"LIKE", "NOT LIKE">>, <<"IN", "NOT IN">>, <<"BETWEEN", "NOT BETWEEN">>,
       <<"IS", "IS NOT">>, <<"EXISTS", "NOT EXISTS">>, <<"<>", "=">>,
       <<"==", "<>">>, <<"<", ">=">>, <<">", "<=">>, <<"AND", "OR">> >>

IsStr(arg) == arg.kind = "lit" /\ arg.type = "str"

\* x == s for a string s: an Expression compares to a new (true) Expression
EqualsStr(x, s) == IsExpression(x) \/ (IsStr(x) /\ x.v = s)

\* the operator __invert__ finds, and the three args it goes on with
InvertOperator(e) ==
    IF e.func # NoFunc THEN Str(e.func)
    ELSE IF Len(e.args) = 3 /\ IsStr(e.args[2]) THEN e.args[2]
    ELSE IF Len(e.args) = 7 /\ EqualsStr(e.args[4], "OR") THEN e.args[4]
    ELSE NoneArg

InvertArgs(e) ==
    IF e.func = NoFunc /\ ~(Len(e.args) = 3 /\ IsStr(e.args[2]))
       /\ Len(e.args) = 7 /\ EqualsStr(e.args[4], "OR")
    THEN <<e.args[2], e.args[4], e.args[6]>>
    ELSE e.args

\* the index of the first pair of opposites that holds operator, 0 if none
OppositeIndex(operator) ==
    LET hits == {i \in DOMAIN opposites :
                    EqualsStr(operator, opposites[i][1])
                    \/ EqualsStr(operator, opposites[i][2])}
    IN  IF hits = {} \/ operator.kind = "none" THEN 0
        ELSE CHOOSE i \in hits : \A j \in hits : i <= j

\* new_op = a if operator == b else b
NewOp(operator) ==
    LET pair == opposites[OppositeIndex(operator)]
    IN  IF EqualsStr(operator, pair[2]) THEN pair[1] ELSE pair[2]

RECURSIVE __invert__(_, _)
\* ~x for an argument x: only an Expression built by Expression(...) inverts
InvertArg(x, c) ==
    IF x.kind = "expr" THEN __invert__(x.e, c) ELSE Failed("TypeError", c)

__invert__(self, c) ==
    LET operator == InvertOperator(self)
        args == InvertArgs(self)
    IN  IF OppositeIndex(operator) = 0 THEN Failed("NotImplementedError", c)
        ELSE IF EqualsStr(operator, "OR") \/ EqualsStr(operator, "AND")
        THEN LET left == InvertArg(args[1], c)
                 right == InvertArg(args[3], left.counter)
             IN  IF left.error # "" THEN left
                 ELSE IF right.error # "" THEN right
                 ELSE IF EqualsStr(operator, "OR")
                 THEN __and__(ExprArg(left.e), ExprArg(right.e), right.counter)
                 ELSE __or__(ExprArg(left.e), ExprArg(right.e), right.counter)
        ELSE IF self.func # NoFunc
        THEN Expression(args, NewOp(operator), NoPrefix, c)
        ELSE Expression([args EXCEPT ![2] = Str(NewOp(operator))], NoFunc, NoPrefix, c)


(***************************************************************************)
(* Tables and foreign keys.  tables maps the name of each created table    *)
(* to its _foreign_keys, an ordered dict: entry i has the table's own      *)
(* column i as key (k) and the referenced column as value (v).  Column 0   *)
(* of a table is its id.                                                   *)
(***************************************************************************)
IdColumn == 0

_foreign_keys(t) == tables[t]

\* the foreign keys a new table t declares towards the tables of targets
ForeignKeysTo(t, targets) ==
    [i \in DOMAIN targets |-> [k |-> Col(t, i), v |-> Col(targets[i], IdColumn)]]

RECURSIVE SumLen(_, _)
SumLen(f, S) ==
    IF S = {} THEN 0
    ELSE LET x == CHOOSE y \in S : TRUE IN Len(f[x]) + SumLen(f, S \ {x})

\* the number of foreign keys declared in the database
NumForeignKeys == SumLen(tables, DOMAIN tables)

\* every declared foreign key references a table that exists
SchemaResolves ==
    \A t \in DOMAIN tables : \A i \in DOMAIN tables[t] :
        tables[t][i].v.table \in DOMAIN tables

(***************************************************************************)
(* _implicit_join_helper.  Its result is [error, joins]; error is          *)
(* "RecursionError" when the recursion does not end.  The helper is a      *)
(* function of (start_table, target_table, prior_joins, reverse) and of    *)
(* the foreign keys; calls holds the (start_table, prior_joins) of the     *)
(* calls that are in progress, and a call that is made again while it is   *)
(* in progress never returns.                                              *)
(***************************************************************************)
Returned(joins) == [error |-> "", joins |-> joins]

Raised(error) == [error |-> error, joins |-> << >>]

\* Expression(key, '=', foreign_key)
JoinCondition(key, foreign_key) ==
    Expression(<<key, Str("="), foreign_key>>, NoFunc, NoPrefix, CURRENT_PLACEHOLDER).e

\* a helper that writes the join of every foreign key it looks at
HelperNewJoinsOverwriting(prior_joins, key, foreign_key, reverse) ==
    IF reverse
    THEN SetItem(prior_joins, key.table, JoinCondition(key, foreign_key))
    ELSE SetItem(prior_joins, foreign_key.table, JoinCondition(key, foreign_key))

\* the forward join stored under the local table, not the foreign one
HelperNewJoinsKeyedByLocal(prior_joins, key, foreign_key, reverse) ==
    IF (~reverse /\ ~HasKey(prior_joins, foreign_key.table))
       \/ (reverse /\ ~HasKey(prior_joins, key.table))
    THEN SetItem(prior_joins, key.table, JoinCondition(key, foreign_key))
    ELSE prior_joins

\* the dict the helper goes on with after looking at one foreign key
HelperNewJoins(prior_joins, key, foreign_key, reverse) ==
    IF (~reverse /\ ~HasKey(prior_joins, foreign_key.table))
       \/ (reverse /\ ~HasKey(prior_joins, key.table))
    THEN IF reverse
         THEN SetItem(prior_joins, key.table, JoinCondition(key, foreign_key))
         ELSE SetItem(prior_joins, foreign_key.table, JoinCondition(key, foreign_key))
    ELSE prior_joins

\* whether the foreign key just looked at ends the search
HelperAtTarget(target_table, key, foreign_key, reverse) ==
    (~reverse /\ foreign_key.table = target_table)
    \/ (reverse /\ key.table = target_table)

RECURSIVE _implicit_join_helper(_, _, _, _, _), HelperLoop(_, _, _, _, _, _, _)
RECURSIVE HelperRecursed(_, _, _, _, _, _, _, _)
\* the rest of one iteration, recursion being what the recursive call returned
HelperRecursed(recursion, start_table, target_table, prior_joins, reverse, foreign_keys, i, calls) ==
    IF recursion.error # "" THEN recursion
    ELSE IF HasKey(recursion.joins, target_table) THEN recursion
    ELSE HelperLoop(start_table, target_table, prior_joins, reverse,
                    foreign_keys, i + 1, calls)

HelperLoop(start_table, target_table, prior_joins, reverse, foreign_keys, i, calls) ==
    IF i > Len(foreign_keys) THEN Returned(prior_joins)
    ELSE LET key == foreign_keys[i].k
             foreign_key == foreign_keys[i].v
             new_joins == HelperNewJoins(prior_joins, key, foreign_key, reverse)
         IN  IF HelperAtTarget(target_table, key, foreign_key, reverse)
             THEN Returned(new_joins)
             ELSE HelperRecursed(_implicit_join_helper(foreign_key.table, target_table,
                                                       new_joins, reverse, calls),
                                 start_table, target_table, prior_joins, reverse,
                                 foreign_keys, i, calls)

_implicit_join_helper(start_table, target_table, prior_joins, reverse, calls) ==
    IF <<start_table, prior_joins>> \in calls THEN Raised("RecursionError")
    ELSE LET foreign_keys == IF reverse THEN _foreign_keys(target_table)
                                        ELSE _foreign_keys(start_table)
         IN  IF foreign_keys = << >> THEN Returned(prior_joins)
             ELSE HelperLoop(start_table, target_table, prior_joins, reverse,
                             foreign_keys, 1, calls \cup {<<start_table, prior_joins>>})

\* a resolver that adds its joins to the dict it is given
WrittenInPlace(prior_joins, joins) == joins

\* what the dict prior_joins holds after implicit_join returned joins: the
\* resolver and its helper write to copy(prior_joins) only
Written(prior_joins, joins) == prior_joins

(***************************************************************************)
(* implicit_join.  Its result is [error, table, joins]: error is "" when   *)
(* it returns joins, "SyntaxError" when it raises for table, and           *)
(* "RecursionError" when a helper call does not end.                       *)
(***************************************************************************)
JoinsOf(result) == [error |-> "", table |-> "", joins |-> result]

JoinError(error, table) == [error |-> error, table |-> table, joins |-> << >>]

RECURSIVE JoinLoop(_, _, _, _), JoinTry(_, _, _, _, _)
\* the end of one iteration, new_joins being the joins it found
JoinFound(new_joins, target_tables, i, joins, available_tables, n) ==
    IF new_joins.error # "" THEN JoinError(new_joins.error, target_tables[i])
    ELSE IF HasKey(new_joins.joins, target_tables[i])
    THEN JoinLoop(target_tables, i + 1, new_joins.joins,
                  Append(available_tables, target_tables[i]))
    ELSE JoinTry(target_tables, i, joins, available_tables, n + 1)

\* new_joins = forward_joins if it reaches the table, else the reverse search
JoinForward(forward_joins, target_tables, i, joins, available_tables, n) ==
    IF forward_joins.error # "" THEN JoinError(forward_joins.error, target_tables[i])
    ELSE JoinFound(IF HasKey(forward_joins.joins, target_tables[i])
                   THEN forward_joins
                   ELSE _implicit_join_helper(available_tables[n], target_tables[i],
                                              joins, TRUE, {}),
                   target_tables, i, joins, available_tables, n)

\* for a in available_tables: ... else: raise SyntaxError
JoinTry(target_tables, i, joins, available_tables, n) ==
    IF n > Len(available_tables) THEN JoinError("SyntaxError", target_tables[i])
    ELSE JoinForward(_implicit_join_helper(available_tables[n], target_tables[i],
                                           joins, FALSE, {}),
                     target_tables, i, joins, available_tables, n)

\* while i < len(target_tables)
JoinLoop(target_tables, i, joins, available_tables) ==
    IF i > Len(target_tables) THEN JoinsOf(joins)
    ELSE IF target_tables[i] \in Range(available_tables)
    THEN JoinLoop(target_tables, i + 1, joins, available_tables)
    ELSE JoinTry(target_tables, i, joins, available_tables, 1)

\* a resolver that tries the keys of prior_joins before the start table
implicit_join_prior_first(start_table, target_tables, prior_joins) ==
    JoinLoop(target_tables, 1, prior_joins, Keys(prior_joins) \o <<start_table>>)

implicit_join(start_table, target_tables, prior_joins) ==
    JoinLoop(target_tables, 1, prior_joins, <<start_table>> \o Keys(prior_joins))


(***************************************************************************)
(* The resolver's specification: tables are created one by one, each with  *)
(* its foreign keys (which may name tables created later, or the table     *)
(* itself); once every foreign key resolves, implicit_join is called with  *)
(* a start table, the target tables in some order, and explicit joins.     *)
(***************************************************************************)
SeqsUpTo(S, n) == UNION {[1..k -> S] : k \in 0..n}

Distinct(s) == \A i, j \in DOMAIN s : i # j => s[i] # s[j]

NoCall == [active |-> FALSE, start |-> "", targets |-> << >>, prior |-> << >>,
           prior_after |-> << >>, result |-> JoinsOf(<< >>)]

NoStatement == [kind |-> "none"]

\* no table is attached for alterations
NoTable == [kind |-> "none"]

\* the program opens no Database
NoDatabase == [kind |-> "none"]

\* the program has one thread only
NoThreads == << >>

NoOp == [op |-> "none", x |-> NoneArg, y |-> NoneArg, result |-> NoExpr,
         error |-> "", before |-> 0]

\* an explicit join the caller passes: table p on p.id = start.id
ExplicitJoin(p, start) ==
    [k |-> p, v |-> Expression(<<Col(p, IdColumn), Str("="), Col(start, IdColumn)>>,
                               NoFunc, NoPrefix, CURRENT_PLACEHOLDER).e]

PriorJoins(start) ==
    {<< >>} \cup {<<ExplicitJoin(p, start)>> : p \in DOMAIN tables \ {start}}

\* db.create_table(t, foreign_keys = ...)
CreateTable(t, targets) ==
    /\ ~join_call.active
    /\ t \notin DOMAIN tables
    /\ NumForeignKeys + Len(targets) <= MaxForeignKeys
    /\ tables' = (t :> ForeignKeysTo(t, targets)) @@ tables
    /\ UNCHANGED <<join_call, CURRENT_PLACEHOLDER, expr, last_op, stmt, objects, attached, database, threads>>

\* joins = implicit_join(start, targets, prior)
CallImplicitJoin(start, targets) ==
    /\ ~join_call.active
    /\ SchemaResolves
    /\ start \in DOMAIN tables
    /\ targets # << >>
    /\ Range(targets) \subseteq DOMAIN tables
    /\ Distinct(targets)
    /\ \E prior \in PriorJoins(start) :
           join_call' = [active |-> TRUE, start |-> start, targets |-> targets,
                         prior |-> prior,
                         prior_after |-> Written(prior, implicit_join(start, targets,
                                                                      prior).joins),
                         result |-> implicit_join(start, targets, prior)]
    /\ UNCHANGED <<tables, CURRENT_PLACEHOLDER, expr, last_op, stmt, objects, attached, database, threads>>

\* the caller is done with the joins (or has caught the error)
DropJoins ==
    /\ join_call.active
    /\ join_call' = NoCall
    /\ UNCHANGED <<tables, CURRENT_PLACEHOLDER, expr, last_op, stmt, objects, attached, database, threads>>

JoinInit ==
    /\ tables = << >>
    /\ join_call = NoCall
    /\ CURRENT_PLACEHOLDER = 0
    /\ expr = NoExpr
    /\ last_op = NoOp
    /\ stmt = NoStatement
    /\ objects = << >>
    /\ attached = NoTable
    /\ database = NoDatabase
    /\ threads = NoThreads

JoinNext ==
    \/ \E t \in TableNames : \E targets \in SeqsUpTo(TableNames, MaxForeignKeys) :
           CreateTable(t, targets)
    \/ \E start \in TableNames : \E targets \in SeqsUpTo(TableNames, Cardinality(TableNames)) :
           CallImplicitJoin(start, targets)
    \/ DropJoins

JoinSpec == JoinInit /\ [][JoinNext]_vars


(***************************************************************************)
(* Building Expressions.  A program holds one Expression (expr) and        *)
(* builds it up from Columns and literals: a term, a comparison, the       *)
(* conjunction or disjunction with a further comparison on either side,    *)
(* an inversion.  Every construction draws its placeholders from the       *)
(* global counter.  last_op records the last operator applied: its         *)
(* operands, its result or the error it raised, and the counter before.    *)
(***************************************************************************)
MaxColumns == 3

MaxCounter == 6

ExprTables == ("t1" :> << >>) @@ ("t2" :> ForeignKeysTo("t2", <<"t1">>))

ExprColumns == {Col("t1", IdColumn), Col("t2", IdColumn)}

ComparisonOps == {"="}

Literals == {Lit("int", "7")}

TermLiterals == {Lit("int", "1")}

RECURSIVE NumColumns(_), NumColumnsFrom(_, _)
NumColumnsFrom(args, i) ==
    IF i > Len(args) THEN 0
    ELSE (IF args[i].kind = "col" THEN 1
          ELSE IF args[i].kind = "expr" THEN NumColumns(args[i].e)
          ELSE 0) + NumColumnsFrom(args, i + 1)

NumColumns(e) == NumColumnsFrom(e.args, 1)

IsTerm(e) == e # NoExpr /\ Len(e.args) = 3 /\ e.args[2] = Str("-")

IsCondition(e) == e # NoExpr /\ ~IsTerm(e)

\* the counter stays in the window the model follows
InWindow(c) == c <= MaxCounter \/ c >= MAX_PLACEHOLDER

\* expr = <the operator applied>, with res its outcome
Assign(op, x, y, res) ==
    /\ stmt = NoStatement
    /\ InWindow(res.counter)
    /\ res.error = "" => NumColumns(res.e) <= MaxColumns
    /\ expr' = IF res.error = "" THEN res.e ELSE expr
    /\ CURRENT_PLACEHOLDER' = res.counter
    /\ last_op' = [op |-> op, x |-> x, y |-> y,
                   result |-> IF res.error = "" THEN res.e ELSE NoExpr,
                   error |-> res.error, before |-> CURRENT_PLACEHOLDER]
    /\ UNCHANGED <<tables, join_call, stmt, objects, attached, database, threads>>

\* expr = col - lit
BuildTerm(col, lit) ==
    /\ expr = NoExpr
    /\ Assign("-", col, lit, __sub__(col, lit, CURRENT_PLACEHOLDER))

\* expr = col <op> lit, or expr = expr <op> lit for a term
BuildComparison(x, op, lit) ==
    /\ IF x.kind = "col" THEN expr = NoExpr ELSE IsTerm(expr) /\ x = ExprArg(expr)
    /\ Assign(op, x, lit, Comparison(x, op, lit, CURRENT_PLACEHOLDER))

\* expr = expr & (col <op> lit), or expr = (col <op> lit) & expr
BuildAnd(col, op, lit, expr_first) ==
    /\ IsCondition(expr)
    /\ LET other == Comparison(col, op, lit, CURRENT_PLACEHOLDER)
           x == IF expr_first THEN ExprArg(expr) ELSE ExprArg(other.e)
           y == IF expr_first THEN ExprArg(other.e) ELSE ExprArg(expr)
       IN  Assign("&", x, y, __and__(x, y, other.counter))

\* expr = expr | (col <op> lit), or expr = (col <op> lit) | expr
BuildOr(col, op, lit, expr_first) ==
    /\ IsCondition(expr)
    /\ LET other == Comparison(col, op, lit, CURRENT_PLACEHOLDER)
           x == IF expr_first THEN ExprArg(expr) ELSE ExprArg(other.e)
           y == IF expr_first THEN ExprArg(other.e) ELSE ExprArg(expr)
       IN  Assign("|", x, y, __or__(x, y, other.counter))

\* expr = ~expr
BuildInverse ==
    /\ expr # NoExpr
    /\ Assign("~", ExprArg(expr), NoneArg, __invert__(expr, CURRENT_PLACEHOLDER))

\* expr = ~~expr; last_op.y is the inner ~expr
BuildDoubleInverse ==
    /\ expr # NoExpr
    /\ LET inner == __invert__(expr, CURRENT_PLACEHOLDER)
       IN  IF inner.error # ""
           THEN Assign("~~", ExprArg(expr), NoneArg, inner)
           ELSE Assign("~~", ExprArg(expr), ExprArg(inner.e),
                       __invert__(inner.e, inner.counter))

ExprInit ==
    /\ tables = ExprTables
    /\ join_call = NoCall
    /\ CURRENT_PLACEHOLDER = 0
    /\ expr = NoExpr
    /\ last_op = NoOp
    /\ stmt = NoStatement
    /\ objects = << >>
    /\ attached = NoTable
    /\ database = NoDatabase
    /\ threads = NoThreads

ExprNext ==
    \/ \E col \in ExprColumns : \E lit \in TermLiterals : BuildTerm(col, lit)
    \/ \E x \in ExprColumns \cup {ExprArg(expr)} : \E op \in ComparisonOps :
           \E lit \in Literals : BuildComparison(x, op, lit)
    \/ \E col \in ExprColumns : \E op \in ComparisonOps : \E lit \in Literals :
           \E expr_first \in BOOLEAN : BuildAnd(col, op, lit, expr_first)
    \/ \E col \in ExprColumns : \E op \in ComparisonOps : \E lit \in Literals :
           \E expr_first \in BOOLEAN : BuildOr(col, op, lit, expr_first)
    \/ BuildInverse
    \/ BuildDoubleInverse

ExprSpec == ExprInit /\ [][ExprNext]_vars

(***************************************************************************)
(* Statements.  A statement is the record of the fields its constructor    *)
(* sets; a mapping argument (updates, row, keyword arguments) is an        *)
(* ordered dict from Columns of the statement's table to values, a value   *)
(* being a literal, a Column or an Expression.  A clause is a sequence of  *)
(* tokens; a literal that is put into a clause as it is, is a text token.  *)
(***************************************************************************)
Text(lit) == [kind |-> "text", type |-> lit.type, v |-> lit.v]

ColumnName(col) == [kind |-> "name", name |-> col.name]

\* str(v) of a value v
ValueStr(v) ==
    IF v.kind = "expr" THEN __str__(v.e)
    ELSE IF v.kind = "lit" THEN <<Text(v)>>
    ELSE IF v.kind = "none" THEN <<Text(Lit("NoneType", "None"))>>
    ELSE <<v>>

\* a list or tuple of values
ListArg(items) == [kind |-> "list", items |-> items]

\* bool(v) of a value a statement holds
Truthy(v) ==
    IF v.kind = "none" THEN FALSE
    ELSE IF v.kind = "lit" THEN v.v \notin {"", "0", "0.0"}
    ELSE IF v.kind = "list" THEN v.items # << >>
    ELSE TRUE

\* ", ".join(items) raises TypeError unless every item is a str
Joinable(v) == \A i \in DOMAIN v.items : IsStr(v.items[i])

BaseStatement(kind, table, where, kwargs) ==
    [kind |-> kind, table |-> table, where |-> where, join |-> << >>,
     limit |-> NoneArg, offset |-> NoneArg, autojoin |-> TRUE,
     unknown_kwargs |-> kwargs, raw_updates |-> << >>, row |-> << >>,
     columns |-> Kw("*"), having |-> NoExpr,
     order_by |-> NoneArg, group_by |-> NoneArg, or_ |-> NoneArg]

Built(s, c) == [s |-> s, counter |-> c, error |-> ""]

RECURSIVE SelectCriteria(_, _, _, _)
\* where = where & new_criteria, or new_criteria when where is None
AddCriteria(where, kwargs, i, new_criteria) ==
    IF new_criteria.error # "" THEN new_criteria
    ELSE IF where # NoExpr
    THEN SelectCriteria(__and__(ExprArg(where), ExprArg(new_criteria.e),
                                new_criteria.counter).e,
                        kwargs, i + 1, new_criteria.counter)
    ELSE SelectCriteria(new_criteria.e, kwargs, i + 1, new_criteria.counter)

\* Select.__init__: each keyword argument becomes a criterion of where
SelectCriteria(where, kwargs, i, c) ==
    IF i > Len(kwargs) THEN [e |-> where, counter |-> c, error |-> ""]
    ELSE AddCriteria(where, kwargs, i,
                     Expression(<<kwargs[i].k, Str("="), kwargs[i].v>>,
                                NoFunc, NoPrefix, c))

\* the Select made with criteria as its where
Selected(table, having, kwargs, criteria) ==
    [s |-> [BaseStatement("Select", table, criteria.e, kwargs)
                EXCEPT !.having = having],
     counter |-> criteria.counter,
     error |-> criteria.error]

Select(table, where, having, kwargs, c) ==
    Selected(table, having, kwargs, SelectCriteria(where, kwargs, 1, c))

\* group_by as Select.__init__ keeps it, its columns given as Column objects
GroupBy(group_by) == IF Truthy(group_by) THEN group_by ELSE NoneArg

\* the Select built with the keyword arguments group_by, order_by, limit and
\* offset; order_by is None or a list, which BaseStatement.__init__ keeps
Ordered(built, group_by, order_by, limit, offset) ==
    [built EXCEPT !.s.group_by = GroupBy(group_by), !.s.order_by = order_by,
                  !.s.limit = limit, !.s.offset = offset]

Delete(table, where, kwargs, c) == Built(BaseStatement("Delete", table, where, kwargs), c)

Update(table, updates, where, kwargs, c) ==
    Built([BaseStatement("Update", table, where, kwargs) EXCEPT !.raw_updates = updates], c)

RECURSIVE SetItems(_, _, _)
\* a.update(b) for ordered dicts
SetItems(a, b, i) ==
    IF i > Len(b) THEN a ELSE SetItems(SetItem(a, b[i].k, b[i].v), b, i + 1)

RECURSIVE InsertRow(_, _, _, _)
\* the entry k: Expression(v) of the row, value being that Expression
InsertValue(row, i, done, value) ==
    IF value.error # ""
    THEN [row |-> done, counter |-> value.counter, error |-> value.error]
    ELSE InsertRow(row, i + 1, Append(done, [k |-> row[i].k, v |-> value.e]),
                   value.counter)

\* {k: Expression(v) for k, v in row.items()}
InsertRow(row, i, done, c) ==
    IF i > Len(row) THEN [row |-> done, counter |-> c, error |-> ""]
    ELSE InsertValue(row, i, done, Expression(<<row[i].v>>, NoFunc, NoPrefix, c))

\* the Insert made with built as its row
Inserted(table, kwargs, built) ==
    [s |-> [BaseStatement("Insert", table, NoExpr, kwargs) EXCEPT !.row = built.row],
     counter |-> built.counter,
     error |-> built.error]

Insert(table, row, kwargs, c) ==
    Inserted(table, kwargs, InsertRow(SetItems(row, kwargs, 1), 1, << >>, c))

\* the Insert built with the keyword arguments where, join and or_
Qualified(built, where, join, or_) ==
    [built EXCEPT !.s.where = where, !.s.join = join, !.s.or_ = or_]

\* Update.updates: raw_updates, then the keyword arguments over them
updates(s) == SetItems(s.raw_updates, s.unknown_kwargs, 1)

ValueTables(v) == IF IsExpression(v) THEN ArgTables(v) ELSE {}

\* the tables of the items of a list whose first item is an Expression
ListTables(v) ==
    IF v.kind = "list" /\ Len(v.items) > 0 /\ IsExpression(v.items[1])
    THEN UNION {ValueTables(v.items[i]) : i \in DOMAIN v.items}
    ELSE {}

DictTables(d) == UNION {ValueTables(d[i].k) \cup ValueTables(d[i].v) : i \in DOMAIN d}

\* an Expression field is taken to reference no table
NoTablesOf(e) == {}

ExprTablesOf(e) == IF e = NoExpr THEN {} ELSE e.tables

\* BaseStatement._necessary_tables, as a set; the list the code makes of it
\* has an order of its own
_necessary_tables(s) ==
    {s.table} \cup ExprTablesOf(s.where) \cup ExprTablesOf(s.having)
    \cup UNION {s.join[i].v.tables : i \in DOMAIN s.join}
    \cup DictTables(s.raw_updates)
    \cup UNION {ValueTables(s.unknown_kwargs[i].v) : i \in DOMAIN s.unknown_kwargs}
    \cup UNION {s.row[i].v.tables : i \in DOMAIN s.row}
    \cup ValueTables(s.limit) \cup ValueTables(s.offset)
    \cup ListTables(s.order_by) \cup ListTables(s.group_by) \cup ValueTables(s.group_by)

Orders(S) == {o \in [1..Cardinality(S) -> S] : Range(o) = S}

RECURSIVE JoinClauses(_, _)
\* f'JOIN {k} ON {v}' for k, v in joins.items()
JoinClauses(joins, i) ==
    IF i > Len(joins) THEN << >>
    ELSE <<(<<Kw("JOIN"), TableArg(joins[i].k), Kw("ON")>> \o __str__(joins[i].v))>>
         \o JoinClauses(joins, i + 1)

RECURSIVE Separated(_, _)
\* ', '.join(parts)
Separated(parts, i) ==
    IF i > Len(parts) THEN << >>
    ELSE (IF i > 1 THEN <<Kw(",")>> ELSE << >>) \o parts[i] \o Separated(parts, i + 1)

\* BaseStatement.clauses, given the joins: the clauses that are not empty
BaseClauses(s, joins) ==
    << <<Kw("FROM"), TableArg(s.table)>> >>
    \o JoinClauses(joins, 1)
    \o (IF s.where # NoExpr THEN << <<Kw("WHERE")>> \o __str__(s.where) >> ELSE << >>)
    \o (IF Truthy(s.limit) THEN << <<Kw("LIMIT")>> \o ValueStr(s.limit) >> ELSE << >>)
    \o (IF Truthy(s.offset) THEN << <<Kw("OFFSET")>> \o ValueStr(s.offset) >> ELSE << >>)
    \o (IF Truthy(s.order_by)
        THEN << <<Kw("ORDER BY")>>
                \o Separated([i \in DOMAIN s.order_by.items |-> <<Text(s.order_by.items[i])>>], 1) >>
        ELSE << >>)

RECURSIVE InsertBeforeWhere(_, _, _)
\* clauses.insert(i, clause) at the first clause that starts with WHERE,
\* clauses.append(clause) when there is none
InsertBeforeWhere(cl, clause, i) ==
    IF i > Len(cl) THEN Append(cl, clause)
    ELSE IF cl[i][1] = Kw("WHERE")
    THEN SubSeq(cl, 1, i - 1) \o <<clause>> \o SubSeq(cl, i, Len(cl))
    ELSE InsertBeforeWhere(cl, clause, i + 1)

\* a Select that appends its GROUP BY clause wherever WHERE stands
AppendedGroupBy(s, selected) ==
    IF Truthy(s.group_by)
    THEN Append(selected, <<Kw("GROUP BY")>> \o ValueStr(s.group_by))
    ELSE selected

\* the clauses of a Select before HAVING, selected being [select] + super().clauses
GroupedClauses(s, selected) ==
    IF Truthy(s.group_by)
    THEN InsertBeforeWhere(selected, <<Kw("GROUP BY")>> \o ValueStr(s.group_by), 1)
    ELSE selected

SelectClauses(s, base) ==
    GroupedClauses(s, << <<Kw("SELECT")>> \o ValueStr(s.columns) >> \o base)
    \o (IF s.having # NoExpr THEN << <<Kw("HAVING")>> \o __str__(s.having) >> ELSE << >>)

DeleteClauses(s, base) == [base EXCEPT ![1] = <<Kw("DELETE")>> \o @]

InsertClauses(s, base) ==
    << <<Kw("INSERT")>>
       \o (IF Truthy(s.or_) THEN <<Kw("OR"), Text(s.or_)>> ELSE << >>)
       \o <<Kw("INTO"), TableArg(s.table), Kw("(")>>
       \o Separated([i \in DOMAIN s.row |-> <<ColumnName(s.row[i].k)>>], 1)
       \o <<Kw(")"), Kw("VALUES"), Kw("(")>>
       \o Separated([i \in DOMAIN s.row |-> __str__(s.row[i].v)], 1)
       \o <<Kw(")")>> >>
    \o Tail(base)

\* f'{k._name} = {v}' for k, v in self.updates.items()
update_strs(s) ==
    LET u == updates(s)
    IN  [i \in DOMAIN u |-> <<ColumnName(u[i].k), Kw("=")>> \o ValueStr(u[i].v)]

UpdateClauses(s, base) ==
    << <<Kw("UPDATE"), TableArg(s.table)>>,
       <<Kw("SET")>> \o Separated(update_strs(s), 1) >>
    \o [base EXCEPT ![1] = @ \o <<Kw("AS"), Kw("hissdb_placeholder")>>]

\* the clauses of the statement's class, given those of BaseStatement
ClassClauses(s, base) ==
    CASE s.kind = "Select" -> SelectClauses(s, base)
      [] s.kind = "Delete" -> DeleteClauses(s, base)
      [] s.kind = "Insert" -> InsertClauses(s, base)
      [] s.kind = "Update" -> UpdateClauses(s, base)

\* the clauses of s, joins being the result of implicit_join
JoinedClauses(s, joins) ==
    IF joins.error # "" THEN [clauses |-> << >>, error |-> joins.error]
    ELSE IF Truthy(s.order_by) /\ ~Joinable(s.order_by)
    THEN [clauses |-> << >>, error |-> "TypeError"]
    ELSE IF s.kind = "Select" /\ Truthy(s.group_by) /\ s.group_by.kind = "list"
    THEN [clauses |-> << >>, error |-> "TypeError"]
    ELSE [clauses |-> ClassClauses(s, BaseClauses(s, joins.joins)), error |-> ""]

\* the clauses of s when the list of its necessary tables is order:
\* [clauses, error]
clauses(s, order) ==
    JoinedClauses(s, IF s.autojoin THEN implicit_join(s.table, order, s.join)
                     ELSE JoinsOf(s.join))

DictField(d) == [kind |-> "dict", d |-> d]

ExprField(e) == IF e = NoExpr THEN NoneArg ELSE ExprArg(e)

JoinField(join) == DictField([i \in DOMAIN join |-> [k |-> join[i].k, v |-> ExprArg(join[i].v)]])

\* the values of __dict__, in the order the constructors set them
Fields(s) ==
    (IF s.kind = "Update" THEN <<DictField(s.raw_updates)>> ELSE << >>)
    \o <<TableArg(s.table), ExprField(s.where), JoinField(s.join), s.order_by, s.limit,
         s.offset, Other("bool"), DictField(s.unknown_kwargs)>>
    \o (IF s.kind = "Select"
        THEN <<s.columns, s.columns, s.group_by, ExprField(s.having)>>
        ELSE << >>)

RECURSIVE DictPlaceholders(_, _, _)
\* for item in val.values(): placeholders.update(item.placeholders)
DictPlaceholders(acc, d, i) ==
    IF i > Len(d) \/ acc.error # "" THEN acc
    ELSE IF IsExpression(d[i].v)
    THEN DictPlaceholders([acc EXCEPT !.ph = Merged(@, ArgPlaceholders(d[i].v))], d, i + 1)
    ELSE [acc EXCEPT !.error = "AttributeError"]

\* one iteration of the loop of BaseStatement.placeholders
FieldPlaceholders(acc, val) ==
    IF IsExpression(val) THEN [acc EXCEPT !.ph = Merged(@, ArgPlaceholders(val))]
    ELSE IF val.kind = "dict" /\ Len(val.d) > 0 /\ IsExpression(val.d[1].v)
    THEN DictPlaceholders(acc, val.d, 1)
    ELSE IF val.kind = "list" /\ Len(val.items) > 0 /\ IsExpression(val.items[1])
    THEN DictPlaceholders(acc, [i \in DOMAIN val.items |-> [k |-> i, v |-> val.items[i]]], 1)
    ELSE acc

RECURSIVE FieldsPlaceholders(_, _, _)
FieldsPlaceholders(acc, fields, i) ==
    IF i > Len(fields) \/ acc.error # "" THEN acc
    ELSE FieldsPlaceholders(FieldPlaceholders(acc, fields[i]), fields, i + 1)

\* the placeholders property of s: [ph, error]
placeholders(s) ==
    IF s.kind = "Insert"
    THEN DictPlaceholders([ph |-> << >>, error |-> ""],
                          [i \in DOMAIN s.row |-> [k |-> s.row[i].k, v |-> ExprArg(s.row[i].v)]],
                          1)
    ELSE FieldsPlaceholders([ph |-> << >>, error |-> ""], Fields(s), 1)

(***************************************************************************)
(* The statements' specification: the program builds an Expression (a      *)
(* term, a comparison, its double inversion), other Expressions it builds  *)
(* and drops meanwhile draw placeholders, and the program makes and        *)
(* executes a statement through Table.select, update, insert or delete,    *)
(* with the Expression it holds or literals as arguments.  stmt holds the  *)
(* statement executed, the clauses and the placeholders it rendered.       *)
(***************************************************************************)
MaxAllocated == 2

MaxMapping == 2

StmtLiterals == {Str("Bob")}

TableColumns(t) == {Col(t, IdColumn), Col(t, IdColumn + 1)}

\* the ordered dicts of at most n entries from the columns of t to values
Mappings(t, values, n) ==
    {m \in SeqsUpTo({[k |-> c, v |-> v] : c \in TableColumns(t), v \in values}, n) :
        Distinct(Keys(m))}

\* the conditions the program can pass: none, or the one it holds
Conditions == {NoExpr} \cup (IF IsCondition(expr) THEN {expr} ELSE {})

\* the values the program can pass: a literal, or the Expression it holds
Values == StmtLiterals \cup (IF expr # NoExpr THEN {ExprArg(expr)} ELSE {})

\* the statement executed with the text and the parameters it rendered
Rendering(s, order, text, params) ==
    [s |-> s, order |-> order, renders |-> 1,
     clauses |-> text.clauses, placeholders |-> params.ph,
     error |-> IF text.error # "" THEN text.error ELSE params.error]

\* BaseStatement.execute: str(self), then self.placeholders
Executed(s, order) == Rendering(s, order, clauses(s, order), placeholders(s))

RECURSIVE JoinCounter(_, _, _, _)
\* the counter after the Expressions the resolver made for the joins it added
JoinCounter(joins, prior_joins, i, c) ==
    IF i > Len(joins) THEN c
    ELSE IF HasKey(prior_joins, joins[i].k) THEN JoinCounter(joins, prior_joins, i + 1, c)
    ELSE JoinCounter(joins, prior_joins, i + 1,
                     Expression(joins[i].v.args, NoFunc, NoPrefix, c).counter)

\* the fields of s after its clauses were read, joins being what the
\* resolver returned
RenderedFields(s, joins) == [s EXCEPT !.join = Written(@, joins.joins)]

Execute(built) ==
    /\ stmt = NoStatement
    /\ built.error = ""
    /\ InWindow(built.counter)
    /\ \E order \in Orders(_necessary_tables(built.s)) :
           stmt' = Executed(built.s, order)
    /\ CURRENT_PLACEHOLDER' = built.counter
    /\ UNCHANGED <<tables, join_call, expr, last_op, objects, attached, database, threads>>

\* Table.select(where=..., having=..., **kwargs)
TableSelect(table, where, having, kwargs) ==
    Execute(Select(table, where, having, kwargs, CURRENT_PLACEHOLDER))

\* Table.update(updates, where, **kwargs)
TableUpdate(table, raw_updates, where, kwargs) ==
    /\ Len(raw_updates) + Len(kwargs) > 0
    /\ Execute(Update(table, raw_updates, where, kwargs, CURRENT_PLACEHOLDER))

\* Table.insert(row, **kwargs)
TableInsert(table, row, kwargs) ==
    /\ Len(row) + Len(kwargs) > 0
    /\ Execute(Insert(table, row, kwargs, CURRENT_PLACEHOLDER))

\* Table.delete(where)
TableDelete(table, where) ==
    Execute(Delete(table, where, << >>, CURRENT_PLACEHOLDER))

\* MAX_PLACEHOLDER placeholders are drawn by Expressions that are built
\* and dropped: the counter comes to the value before its own
Allocations ==
    /\ stmt = NoStatement
    /\ CURRENT_PLACEHOLDER \in (1..MaxAllocated) \cup {MAX_PLACEHOLDER + 1}
    /\ CURRENT_PLACEHOLDER' = next_placeholder_n(CURRENT_PLACEHOLDER, MAX_PLACEHOLDER)
    /\ last_op' = NoOp
    /\ UNCHANGED <<tables, join_call, expr, stmt, objects, attached, database, threads>>

StmtNext ==
    \/ \E col \in ExprColumns : \E lit \in TermLiterals : BuildTerm(col, lit)
    \/ \E x \in ExprColumns \cup {ExprArg(expr)} : \E op \in ComparisonOps :
           \E lit \in Literals : BuildComparison(x, op, lit)
    \/ BuildDoubleInverse
    \/ Allocations
    \/ \E table \in DOMAIN tables : \E where, having \in Conditions :
           \E kwargs \in Mappings(table, StmtLiterals, 1) :
               TableSelect(table, where, having, kwargs)
    \/ \E table \in DOMAIN tables : \E where \in Conditions :
           \E raw_updates \in Mappings(table, Values, MaxMapping) :
               \E kwargs \in Mappings(table, Values, 1) :
                   TableUpdate(table, raw_updates, where, kwargs)
    \/ \E table \in DOMAIN tables : \E row \in Mappings(table, Values, MaxMapping) :
           \E kwargs \in Mappings(table, StmtLiterals, 1) :
               TableInsert(table, row, kwargs)
    \/ \E table \in DOMAIN tables : \E where \in Conditions : TableDelete(table, where)

StmtSpec == ExprInit /\ [][StmtNext]_vars

(***************************************************************************)
(* Expression objects.  objects[i] is the object of identity i; an         *)
(* operator reads its operands there and its result is the object the      *)
(* constructor makes.  Constructions hands the constructor three args of   *)
(* every supported and unsupported kind.                                   *)
(***************************************************************************)
MaxObjects == 3

\* the strings a program gives as the operator of (left, op, right)
Operators ==
    {"=", "<>", "==", "<", ">=", ">", "<=", "LIKE", "NOT LIKE", "IN", "NOT IN",
     "BETWEEN", "NOT BETWEEN", "IS", "IS NOT", "EXISTS", "NOT EXISTS",
     "+", "-", "%", "!=", "||"}

Operands ==
    {Col("t1", IdColumn), Lit("int", "7"), Lit("float", "0.5"), Str("Bob"), Str("NULL"),
     NoneArg, Other("bool"), Other("list")}

Constructions ==
    {<<l, Str(op), r>> : l \in ExprColumns, op \in Operators,
                         r \in {Lit("int", "7"), Str("Bob"), NoneArg}}
    \cup {<<l, Str("="), r>> : l, r \in Operands}

\* the constructor writes over the object of its last operand
StoredOverOperand(objs, e) ==
    IF objs = << >> THEN <<e>> ELSE [objs EXCEPT ![Len(objs)] = e]

\* self.placeholders = {}, self.tokens = [], ...: the object made is a new one
Stored(objs, e) == Append(objs, e)

\* objects gets the result of the operator op applied to x and y
Store(op, x, y, res) ==
    /\ Len(objects) < MaxObjects
    /\ InWindow(res.counter)
    /\ objects' = IF res.error = "" THEN Stored(objects, res.e) ELSE objects
    /\ CURRENT_PLACEHOLDER' = res.counter
    /\ last_op' = [op |-> op, x |-> x, y |-> y,
                   result |-> IF res.error = "" THEN res.e ELSE NoExpr,
                   error |-> res.error, before |-> CURRENT_PLACEHOLDER]
    /\ UNCHANGED <<tables, join_call, expr, stmt, attached, database, threads>>

ArgsOf(args) == [kind |-> "args", args |-> args]

\* Expression(left, op, right)
Construct(args) ==
    /\ objects = << >>
    /\ Store("Expression", ArgsOf(args), NoneArg,
             Expression(args, NoFunc, NoPrefix, CURRENT_PLACEHOLDER))

\* ~objects[i]
Invert(i) ==
    Store("~", ExprArg(objects[i]), NoneArg, __invert__(objects[i], CURRENT_PLACEHOLDER))

CtorNext ==
    \/ \E args \in Constructions : Construct(args)
    \/ \E i \in DOMAIN objects : Invert(i)

CtorSpec == ExprInit /\ [][CtorNext]_vars

(***************************************************************************)
(* The operators' specification: the program compares columns to literals  *)
(* and applies the operators and methods of Expression to the objects it   *)
(* has made, each as often and to whichever objects it likes.              *)
(***************************************************************************)
__rshift__(self, other, c) == Expression(<<self, Str(">>"), other>>, NoFunc, NoPrefix, c)

count(self, distinct, c) ==
    Expression(<<self>>, "COUNT", IF distinct THEN "DISTINCT" ELSE NoPrefix, c)

\* f'{other}%' is a str
startswith(self, other, c) ==
    Expression(<<self, Str("LIKE"), Str(other.v \o "%")>>, NoFunc, NoPrefix, c)

replace(self, find, repl, c) == Expression(<<self, find, repl>>, "REPLACE", NoPrefix, c)

Object(i) == ExprArg(objects[i])

\* col <op> lit, while the program holds fewer than two objects
CompareColumn(col, op, lit) ==
    /\ Len(objects) < 2
    /\ Store(op, col, lit, Comparison(col, op, lit, CURRENT_PLACEHOLDER))

CompareObject(i, op, lit) ==
    Store(op, Object(i), lit, Comparison(Object(i), op, lit, CURRENT_PLACEHOLDER))

And(i, j) == Store("&", Object(i), Object(j), __and__(Object(i), Object(j), CURRENT_PLACEHOLDER))

Or(i, j) == Store("|", Object(i), Object(j), __or__(Object(i), Object(j), CURRENT_PLACEHOLDER))

Subtract(i, lit) == Store("-", Object(i), lit, __sub__(Object(i), lit, CURRENT_PLACEHOLDER))

ShiftRight(i, lit) ==
    Store(">>", Object(i), lit, __rshift__(Object(i), lit, CURRENT_PLACEHOLDER))

Count(i, distinct) ==
    Store("count", Object(i), NoneArg, count(Object(i), distinct, CURRENT_PLACEHOLDER))

StartsWith(i, lit) ==
    Store("startswith", Object(i), lit, startswith(Object(i), lit, CURRENT_PLACEHOLDER))

Replace(i, find, repl) ==
    Store("replace", Object(i), find, replace(Object(i), find, repl, CURRENT_PLACEHOLDER))

ObjectNext ==
    \/ \E col \in ExprColumns : \E op \in ComparisonOps : \E lit \in Literals :
           CompareColumn(col, op, lit)
    \/ \E i \in DOMAIN objects : \E op \in ComparisonOps : \E lit \in Literals :
           CompareObject(i, op, lit)
    \/ \E i, j \in DOMAIN objects : And(i, j)
    \/ \E i, j \in DOMAIN objects : Or(i, j)
    \/ \E i \in DOMAIN objects : Invert(i)
    \/ \E i \in DOMAIN objects : \E lit \in TermLiterals : Subtract(i, lit)
    \/ \E i \in DOMAIN objects : \E lit \in TermLiterals : ShiftRight(i, lit)
    \/ \E i \in DOMAIN objects : \E distinct \in BOOLEAN : Count(i, distinct)
    \/ \E i \in DOMAIN objects : \E lit \in StmtLiterals : StartsWith(i, lit)
    \/ \E i \in DOMAIN objects : \E find, repl \in StmtLiterals : Replace(i, find, repl)

ObjectSpec == ExprInit /\ [][ObjectNext]_vars

(***************************************************************************)
(* The autojoin specification: in a database of three tables whose foreign *)
(* keys make a chain or a star, the program builds a condition on columns  *)
(* of any of the tables and executes a statement on any table with it.     *)
(***************************************************************************)
\* t1 references t2, t2 references t3
ChainTables ==
    ("t1" :> ForeignKeysTo("t1", <<"t2">>)) @@ ("t2" :> ForeignKeysTo("t2", <<"t3">>))
    @@ ("t3" :> << >>)

\* t2 and t3 reference t1
StarTables ==
    ("t1" :> << >>) @@ ("t2" :> ForeignKeysTo("t2", <<"t1">>))
    @@ ("t3" :> ForeignKeysTo("t3", <<"t1">>))

AutojoinColumns == {Col(t, IdColumn) : t \in TableNames}

AutojoinInit ==
    /\ tables \in {ChainTables, StarTables}
    /\ join_call = NoCall
    /\ CURRENT_PLACEHOLDER = 0
    /\ expr = NoExpr
    /\ last_op = NoOp
    /\ stmt = NoStatement
    /\ objects = << >>
    /\ attached = NoTable
    /\ database = NoDatabase
    /\ threads = NoThreads

AutojoinNext ==
    \/ \E col \in AutojoinColumns : \E op \in ComparisonOps : \E lit \in Literals :
           BuildComparison(col, op, lit)
    \/ \E col \in AutojoinColumns : \E op \in ComparisonOps : \E lit \in Literals :
           BuildAnd(col, op, lit, TRUE)
    \/ \E table \in DOMAIN tables : \E where \in Conditions :
           \E kwargs \in Mappings(table, StmtLiterals, 1) :
               TableSelect(table, where, NoExpr, kwargs)
    \/ \E table \in DOMAIN tables : \E where \in Conditions :
           \E raw_updates \in Mappings(table, Values, 1) :
               TableUpdate(table, raw_updates, where, << >>)
    \/ \E table \in DOMAIN tables : \E row \in Mappings(table, Values, 1) :
           TableInsert(table, row, << >>)
    \/ \E table \in DOMAIN tables : \E where \in Conditions : TableDelete(table, where)

AutojoinSpec == AutojoinInit /\ [][AutojoinNext]_vars

(***************************************************************************)
(* Properties of the join resolver.                                        *)
(***************************************************************************)
\* the tables the foreign keys of t reference
References(t) == {tables[t][i].v.table : i \in DOMAIN tables[t]}

RECURSIVE Closure(_)
Closure(S) ==
    LET N == S \cup UNION {References(t) : t \in S}
    IN  IF N = S THEN S ELSE Closure(N)

\* a chain of one or more foreign keys leads from table a to table t
ForeignKeyPath(a, t) == t \in Closure(References(a))

Connected(a, t) == ForeignKeyPath(a, t) \/ ForeignKeyPath(t, a)

JoinReturned == join_call.active /\ join_call.result.error = ""

\* the call returned or raised its own error (its recursion ended)
JoinEnded == join_call.active /\ join_call.result.error # "RecursionError"

JoinedTables == {join_call.start} \cup Range(Keys(join_call.result.joins))

\* C1: whenever implicit_join returns a join map, every target table is the
\* start table or a key of the map, and every table an ON condition of the
\* map references is the start table or a key of the map.
C1_JoinMapReachesTargets ==
    JoinReturned =>
        /\ Range(join_call.targets) \subseteq JoinedTables
        /\ \A i \in DOMAIN join_call.result.joins :
               join_call.result.joins[i].v.tables \subseteq JoinedTables

AvailableAtCall == {join_call.start} \cup Range(Keys(join_call.prior))

\* C2: if no foreign-key path connects an available table (the start table
\* or a key of prior_joins) to the target, forward or backward, implicit_join
\* raises the SyntaxError that names the target and returns no join map.
C2_UnconnectedTargetRaises ==
    (/\ JoinEnded
     /\ join_call.targets[1] \notin AvailableAtCall
     /\ \A a \in AvailableAtCall : ~Connected(a, join_call.targets[1]))
    => (/\ join_call.result.error = "SyntaxError"
        /\ join_call.result.table = join_call.targets[1])

\* T1 -> T2 -> T3 are the only foreign keys, and implicit_join(T1, [T3], {})
\* was called
ChainCall(T1, T2, T3) ==
    /\ T1 # T2 /\ T2 # T3 /\ T1 # T3
    /\ DOMAIN tables = {T1, T2, T3}
    /\ Len(tables[T1]) = 1 /\ tables[T1][1].v.table = T2
    /\ Len(tables[T2]) = 1 /\ tables[T2][1].v.table = T3
    /\ tables[T3] = << >>
    /\ join_call.active
    /\ join_call.start = T1
    /\ join_call.targets = <<T3>>
    /\ join_call.prior = << >>

\* the join entry of table t on a foreign key fk: t ON fk.k = fk.v
IsJoinOn(entry, t, fk) ==
    /\ entry.k = t
    /\ __str__(entry.v) = <<fk.k, Kw("="), fk.v>>

\* C3: with T1 -> T2 -> T3 the only foreign keys, implicit_join(T1, [T3], {})
\* returns the map with keys T2, T3 in that order, T2 on T1.fk = T2.col and
\* T3 on T2.fk = T3.col.
C3_ChainJoin ==
    \A T1, T2, T3 \in TableNames :
        ChainCall(T1, T2, T3) =>
            /\ join_call.result.error = ""
            /\ Len(join_call.result.joins) = 2
            /\ IsJoinOn(join_call.result.joins[1], T2, tables[T1][1])
            /\ IsJoinOn(join_call.result.joins[2], T3, tables[T2][1])

C3_Witness ==
    \E T1, T2, T3 \in TableNames :
        ChainCall(T1, T2, T3) /\ Len(join_call.result.joins) = 2

\* C4: when S has no forward foreign-key path to T and T declares a foreign
\* key that references S, implicit_join(S, [T], {}) returns exactly
\* {T: T.fk = S.col}, on a foreign key of T that references S.
C4_ReverseJoinUsesKeyToStart ==
    (/\ JoinEnded
     /\ Len(join_call.targets) = 1
     /\ join_call.targets[1] # join_call.start
     /\ join_call.prior = << >>
     /\ ~ForeignKeyPath(join_call.start, join_call.targets[1])
     /\ join_call.start \in References(join_call.targets[1]))
    => LET T == join_call.targets[1]
       IN  /\ join_call.result.error = ""
           /\ Len(join_call.result.joins) = 1
           /\ \E i \in DOMAIN tables[T] :
                  /\ tables[T][i].v.table = join_call.start
                  /\ IsJoinOn(join_call.result.joins[1], T, tables[T][i])

(***************************************************************************)
(* The condition a rendered text states, as SQL reads it: OR binds         *)
(* loosest, AND tighter, parentheses group, and a comparison               *)
(* 'left op right' is atomic.  A placeholder stands for the value it is    *)
(* bound to.  A truth assignment gives a truth value to each comparison    *)
(* in its positive form; '<>', '>=', '<=' and the NOT forms are the        *)
(* negations of '=', '<', '>' and the plain forms.                         *)
(***************************************************************************)
PositiveOps == {"=", "<", ">", "LIKE", "IN", "BETWEEN", "IS"}

NegativeOps == {"<>", ">=", "<=", "NOT LIKE", "NOT IN", "NOT BETWEEN", "IS NOT"}

PositiveOf(op) ==
    CASE op = "<>" -> "="
      [] op = "==" -> "="
      [] op = ">=" -> "<"
      [] op = "<=" -> ">"
      [] op = "NOT LIKE" -> "LIKE"
      [] op = "NOT IN" -> "IN"
      [] op = "NOT BETWEEN" -> "BETWEEN"
      [] op = "IS NOT" -> "IS"
      [] OTHER -> op

IsComparisonAt(toks, j) ==
    /\ j \in DOMAIN toks
    /\ toks[j].kind = "kw"
    /\ toks[j].s \in PositiveOps \cup NegativeOps \cup {"=="}

\* the value a token stands for under the bindings ph
Bound(tok, ph) ==
    IF tok.kind # "ph" THEN tok
    ELSE IF tok.key \in DOMAIN ph THEN [kind |-> "value", v |-> ph[tok.key]]
    ELSE [kind |-> "unbound", key |-> tok.key]

\* the position of the operator of the comparison that starts at i
OperatorFrom(toks, i) ==
    CHOOSE j \in i..Len(toks) :
        IsComparisonAt(toks, j) /\ \A k \in i..(j - 1) : ~IsComparisonAt(toks, k)

\* the comparison that starts at i, in its positive form
AtomFrom(toks, i, ph) ==
    LET j == OperatorFrom(toks, i)
    IN  [left |-> [k \in 1..(j - i) |-> Bound(toks[i + k - 1], ph)],
         op |-> PositiveOf(toks[j].s),
         right |-> Bound(toks[j + 1], ph)]

IsBoundary(toks, i) ==
    i = 0 \/ (toks[i].kind = "kw" /\ toks[i].s \in {"(", "AND", "OR"})

\* the positions where a comparison starts
AtomStarts(toks) ==
    {i \in DOMAIN toks :
        /\ IsBoundary(toks, i - 1)
        /\ toks[i] # Kw("(")
        /\ \E j \in i..Len(toks) : IsComparisonAt(toks, j)}

Atoms(toks, ph) == {AtomFrom(toks, i, ph) : i \in AtomStarts(toks)}

RECURSIVE ParseOr(_, _, _), OrRest(_, _, _), ParseAnd(_, _, _), AndRest(_, _, _)
\* each yields [v, i]: the truth value read from position i on, and the
\* position after what was read; env is [ph, asg]
ParsePrimary(toks, i, env) ==
    IF toks[i] = Kw("(")
    THEN LET inner == ParseOr(toks, i + 1, env)
         IN  [v |-> inner.v, i |-> inner.i + 1]
    ELSE LET j == OperatorFrom(toks, i)
             holds == env.asg[AtomFrom(toks, i, env.ph)]
         IN  [v |-> IF toks[j].s \in NegativeOps THEN ~holds ELSE holds,
              i |-> j + 2]

AndRest(toks, l, env) ==
    IF l.i <= Len(toks) /\ toks[l.i] = Kw("AND")
    THEN LET r == ParsePrimary(toks, l.i + 1, env)
         IN  AndRest(toks, [v |-> l.v /\ r.v, i |-> r.i], env)
    ELSE l

ParseAnd(toks, i, env) == AndRest(toks, ParsePrimary(toks, i, env), env)

OrRest(toks, l, env) ==
    IF l.i <= Len(toks) /\ toks[l.i] = Kw("OR")
    THEN LET r == ParseAnd(toks, l.i + 1, env)
         IN  OrRest(toks, [v |-> l.v \/ r.v, i |-> r.i], env)
    ELSE l

ParseOr(toks, i, env) == OrRest(toks, ParseAnd(toks, i, env), env)

\* the truth of the rendered Expression e under asg
Truth(e, asg) == ParseOr(__str__(e), 1, [ph |-> e.placeholders, asg |-> asg]).v

AtomsOf(e) == Atoms(__str__(e), e.placeholders)

TruthAssignments(e1, e2) == [AtomsOf(e1) \cup AtomsOf(e2) -> BOOLEAN]

SameCondition(e1, e2) ==
    \A asg \in TruthAssignments(e1, e2) : Truth(e1, asg) = Truth(e2, asg)

OppositeCondition(e1, e2) ==
    \A asg \in TruthAssignments(e1, e2) : Truth(e1, asg) # Truth(e2, asg)

IsAnd(e) == e # NoExpr /\ Len(e.args) = 3 /\ e.args[2] = Str("AND")

IsOr(e) == e # NoExpr /\ Len(e.args) = 7 /\ e.args[4] = Str("OR")

\* the operands A and B of A & B and of A | B
LeftOf(e) == IF IsAnd(e) THEN e.args[1].e ELSE e.args[2].e

RightOf(e) == IF IsAnd(e) THEN e.args[3].e ELSE e.args[6].e

\* (~A) | (~B) for e = A & B, and (~A) & (~B) for e = A | B
InvertedOperands(e, c) ==
    LET left == __invert__(LeftOf(e), c)
        right == __invert__(RightOf(e), left.counter)
    IN  IF IsAnd(e)
        THEN __or__(ExprArg(left.e), ExprArg(right.e), right.counter).e
        ELSE __and__(ExprArg(left.e), ExprArg(right.e), right.counter).e

InvertedCompound ==
    /\ last_op.op = "~"
    /\ last_op.error = ""
    /\ IsAnd(last_op.x.e) \/ IsOr(last_op.x.e)

\* C9: when ~ has inverted A & B (or A | B), the text rendered for the
\* result states the same condition as the text rendered for (~A) | (~B)
\* (or (~A) & (~B)), and the opposite of the condition the text rendered for
\* A & B (or A | B) states, over every truth assignment of the comparisons.
C9_DeMorgan ==
    InvertedCompound =>
        /\ SameCondition(last_op.result,
                         InvertedOperands(last_op.x.e, CURRENT_PLACEHOLDER))
        /\ OppositeCondition(last_op.result, last_op.x.e)

(***************************************************************************)
(* Properties of parameterization.                                         *)
(***************************************************************************)
RECURSIVE Bindings(_), BindingsFrom(_, _)
\* the literals parameterized in e and in the Expressions under it, each
\* with the key it was given
BindingsFrom(e, i) ==
    IF i > Len(e.args) THEN {}
    ELSE (IF e.args[i].kind = "expr" THEN Bindings(e.args[i].e)
          ELSE IF e.tokens[i].kind = "ph"
          THEN {[key |-> e.tokens[i].key,
                 value |-> [type |-> e.args[i].type, v |-> e.args[i].v]]}
          ELSE {})
         \cup BindingsFrom(e, i + 1)

Bindings(e) == BindingsFrom(e, 1)

ValueBindings(v) == IF v.kind = "expr" THEN Bindings(v.e) ELSE {}

\* the parameterized literals of every Expression a statement renders
StatementBindings(s) ==
    ValueBindings(ExprField(s.where)) \cup ValueBindings(ExprField(s.having))
    \cup UNION {Bindings(s.join[i].v) : i \in DOMAIN s.join}
    \cup UNION {ValueBindings(updates(s)[i].v) :
                    i \in IF s.kind = "Update" THEN DOMAIN updates(s) ELSE {}}
    \cup UNION {Bindings(s.row[i].v) : i \in DOMAIN s.row}

Rendered == stmt # NoStatement /\ stmt.error = ""

RenderedTokens == UNION {Range(stmt.clauses[i]) : i \in DOMAIN stmt.clauses}

\* C5: in a rendered statement, two parameterized literals that have the
\* same placeholder key have the same value, however many placeholders were
\* drawn before or while the statement was built.
C5_OneValuePerKey ==
    Rendered =>
        \A b1, b2 \in StatementBindings(stmt.s) :
            b1.key = b2.key => b1.value = b2.value

ParameterizedLiteral(arg) ==
    arg.kind = "lit" /\ arg.type \in {"int", "float", "str"} /\ NotWhitelisted(arg)

\* the last operator applied was Expression(x, op, y), and it returned
Constructed ==
    /\ last_op.op \in ComparisonOps \cup {"-"}
    /\ last_op.error = ""

\* C6: in the Expression built from arguments, every int, float or str
\* argument v that is not whitelisted has at its position the token of a
\* placeholder key that is bound to v and that no Expression among the
\* arguments has bound already; the rendered Expression holds the placeholder
\* and no literal text.
C6_FreshPlaceholderPerLiteral ==
    Constructed =>
        LET e == last_op.result
        IN  \A i \in DOMAIN e.args :
                ParameterizedLiteral(e.args[i]) =>
                    /\ e.tokens[i].kind = "ph"
                    /\ e.tokens[i].key \in DOMAIN e.placeholders
                    /\ e.placeholders[e.tokens[i].key]
                           = [type |-> e.args[i].type, v |-> e.args[i].v]
                    /\ \A j \in DOMAIN e.args :
                           e.args[j].kind = "expr" =>
                               e.tokens[i].key \notin DOMAIN e.args[j].e.placeholders
                    /\ e.tokens[i] \in Range(__str__(e))
                    /\ \A t \in Range(__str__(e)) : t.kind # "text"

\* C7: in a rendered statement, every placeholder in the clauses has its key
\* in the statement's placeholders, and every literal parameterized in an
\* Expression the statement renders is the value its key is bound to.
C7_RenderedPlaceholdersBound ==
    Rendered =>
        /\ \A t \in RenderedTokens :
               t.kind = "ph" => t.key \in DOMAIN stmt.placeholders
        /\ \A b \in StatementBindings(stmt.s) :
               b.key \in DOMAIN stmt.placeholders
                   => stmt.placeholders[b.key] = b.value

UpdateRendered ==
    stmt # NoStatement /\ stmt.s.kind = "Update" /\ stmt.clauses # << >>

\* C8: in the SET clause of a rendered Update, the value of every update
\* given as a literal is a placeholder that the statement's placeholders bind
\* to the literal, and no clause holds the text of a literal.
C8_UpdateLiteralsParameterized ==
    UpdateRendered =>
        /\ \A i \in DOMAIN updates(stmt.s) :
               updates(stmt.s)[i].v.kind = "lit" =>
                   LET value == update_strs(stmt.s)[i][3]
                   IN  /\ value.kind = "ph"
                       /\ value.key \in DOMAIN stmt.placeholders
                       /\ stmt.placeholders[value.key]
                              = [type |-> updates(stmt.s)[i].v.type,
                                 v |-> updates(stmt.s)[i].v.v]
        /\ \A t \in RenderedTokens : t.kind # "text"

BoundValues(e) == {e.placeholders[k] : k \in DOMAIN e.placeholders}

\* e binds each literal parameterized in it under the literal's own key
WellBound(e) ==
    /\ \A b \in Bindings(e) :
           b.key \in DOMAIN e.placeholders /\ e.placeholders[b.key] = b.value
    /\ \A b1, b2 \in Bindings(e) : b1.key = b2.key => b1 = b2

DoublyInverted ==
    last_op.op = "~~" /\ IsCondition(last_op.x.e) /\ WellBound(last_op.x.e)

\* C10: ~~e of a condition e (one that binds each of its literals under a
\* key of its own) raises no error, its rendered text states the same
\* condition as the rendered text of e over every truth assignment, and it
\* binds the values that e binds.
C10_DoubleInversion ==
    DoublyInverted =>
        /\ last_op.error = ""
        /\ SameCondition(last_op.result, last_op.x.e)
        /\ BoundValues(last_op.result) = BoundValues(last_op.x.e)

(***************************************************************************)
(* Properties of the constructor and of inversion.                         *)
(***************************************************************************)
\* the inverse of each operator, as the inverse table gives it
inv ==
    ("=" :> "<>") @@ ("<>" :> "=") @@ ("==" :> "<>")
    @@ ("<" :> ">=") @@ (">=" :> "<") @@ (">" :> "<=") @@ ("<=" :> ">")
    @@ ("LIKE" :> "NOT LIKE") @@ ("NOT LIKE" :> "LIKE")
    @@ ("IN" :> "NOT IN") @@ ("NOT IN" :> "IN")
    @@ ("BETWEEN" :> "NOT BETWEEN") @@ ("NOT BETWEEN" :> "BETWEEN")
    @@ ("IS" :> "IS NOT") @@ ("IS NOT" :> "IS")

\* the operators of the table that the list above leaves out
OtherTableOperators == {"EXISTS", "NOT EXISTS", "AND", "OR"}

\* e is function-free and of the shape (left, op, right)
IsTriple(e) == e.func = NoFunc /\ Len(e.args) = 3 /\ IsStr(e.args[2])

Inverted == last_op.op = "~" /\ IsTriple(last_op.x.e)

\* C11: ~ of a function-free (left, op, right) is (left, inv(op), right) with
\* the same operands when op is in the inverse table, and raises
\* NotImplementedError, returning nothing, when op is outside the table.
C11_InverseTable ==
    Inverted =>
        LET e == last_op.x.e
            op == e.args[2].v
        IN  /\ op \in DOMAIN inv =>
                   /\ last_op.error = ""
                   /\ last_op.result.func = NoFunc
                   /\ last_op.result.args = <<e.args[1], Str(inv[op]), e.args[3]>>
            /\ op \notin DOMAIN inv \cup OtherTableOperators =>
                   /\ last_op.error = "NotImplementedError"
                   /\ last_op.result = NoExpr

C11_Witness ==
    /\ Inverted
    /\ last_op.x.e.args[2].v = "<="
    /\ last_op.error = ""
    /\ last_op.result.args[2] = Str(">")

TablesOfValue(v) ==
    IF v.kind = "expr" THEN v.e.tables ELSE IF v.kind = "col" THEN {v.table} ELSE {}

\* the tables the sub-expressions of s reference: where, having, the values
\* and columns of the updates, the values of the row
ReferencedTables(s) ==
    (IF s.where = NoExpr THEN {} ELSE s.where.tables)
    \cup (IF s.having = NoExpr THEN {} ELSE s.having.tables)
    \cup UNION {TablesOfValue(s.raw_updates[i].k) \cup TablesOfValue(s.raw_updates[i].v) :
                    i \in DOMAIN s.raw_updates}
    \cup UNION {TablesOfValue(s.unknown_kwargs[i].v) : i \in DOMAIN s.unknown_kwargs}
    \cup UNION {s.row[i].v.tables : i \in DOMAIN s.row}

\* the keys of the join map the statement was rendered with
JoinedKeys ==
    {stmt.clauses[i][2].table :
        i \in {j \in DOMAIN stmt.clauses : stmt.clauses[j][1] = Kw("JOIN")}}

AutoJoined == Rendered /\ stmt.s.autojoin

GroupBys(table) ==
    {NoneArg, Col(table, IdColumn + 1), Col("t1", IdColumn),
     ListArg(<<Col(table, IdColumn)>>), ListArg(<< >>)}

OrderBys(table) ==
    {NoneArg, ListArg(<<Str("id")>>), ListArg(<<Str("id"), Str("c1")>>),
     ListArg(<<Col(table, IdColumn)>>), ListArg(<< >>)}

Limits == {NoneArg, Lit("int", "0"), Lit("int", "5")}

Offsets == {NoneArg, Lit("int", "0"), Lit("int", "2")}

\* Table.select(where=, having=, group_by=, order_by=, limit=, offset=)
TableSelectOrdered(table, where, having, group_by, order_by, limit, offset) ==
    Execute(Ordered(Select(table, where, having, << >>, CURRENT_PLACEHOLDER),
                    group_by, order_by, limit, offset))

SelectNext ==
    \/ \E x \in ExprColumns : \E op \in ComparisonOps : \E lit \in Literals :
           BuildComparison(x, op, lit)
    \/ \E table \in DOMAIN tables : \E where, having \in Conditions :
           \E group_by \in GroupBys(table) : \E order_by \in OrderBys(table) :
               \E limit \in Limits : \E offset \in Offsets :
                   TableSelectOrdered(table, where, having, group_by, order_by,
                                      limit, offset)

SelectSpec == ExprInit /\ [][SelectNext]_vars

(***************************************************************************)
(* Properties of the clauses of a Select                                   *)
(***************************************************************************)
\* the keyword each clause of the executed statement starts with
Heads == [i \in DOMAIN stmt.clauses |-> stmt.clauses[i][1].s]

BaseRank ==
    ("SELECT" :> 1) @@ ("FROM" :> 2) @@ ("JOIN" :> 3) @@ ("WHERE" :> 4)
    @@ ("LIMIT" :> 5) @@ ("OFFSET" :> 6) @@ ("ORDER BY" :> 7)

RenderedSelect == stmt # NoStatement /\ stmt.s.kind = "Select" /\ stmt.error = ""

Present(head) == \E i \in DOMAIN Heads : Heads[i] = head

\* C14: in a rendered Select the clauses SELECT, FROM, JOINs, WHERE, LIMIT,
\* OFFSET, ORDER BY stand in this order, each but JOIN at most once and only
\* when its field is set; with group_by set, GROUP BY is the clause just
\* before WHERE when there is a WHERE clause; with having set, HAVING is the
\* last clause
C14_SelectClauseOrder ==
    RenderedSelect =>
        /\ Heads[1] = "SELECT" /\ Heads[2] = "FROM"
        /\ \A i, j \in DOMAIN Heads :
               (i < j /\ Heads[i] \in DOMAIN BaseRank /\ Heads[j] \in DOMAIN BaseRank)
                   => \/ BaseRank[Heads[i]] < BaseRank[Heads[j]]
                      \/ Heads[i] = "JOIN" /\ Heads[j] = "JOIN"
        /\ Present("WHERE") => stmt.s.where # NoExpr
        /\ Present("LIMIT") => stmt.s.limit # NoneArg
        /\ Present("OFFSET") => stmt.s.offset # NoneArg
        /\ Present("ORDER BY") => stmt.s.order_by # NoneArg
        /\ Present("GROUP BY") => stmt.s.group_by # NoneArg
        /\ Present("HAVING") => stmt.s.having # NoExpr
        /\ stmt.s.group_by # NoneArg =>
               \A i \in DOMAIN Heads : Heads[i] = "WHERE" => Heads[i - 1] = "GROUP BY"
        /\ stmt.s.having # NoExpr => Heads[Len(Heads)] = "HAVING"

\* a Select of t2 rendered with a JOIN and each of the other clauses
C14_Witness ==
    /\ RenderedSelect
    /\ Heads = <<"SELECT", "FROM", "JOIN", "GROUP BY", "WHERE", "LIMIT", "OFFSET",
                 "ORDER BY", "HAVING">>

(***************************************************************************)
(* Insert statements: the program builds conditions and inserts rows whose *)
(* values are literals or the Expression it holds, with or without where=, *)
(* join= and or_=.                                                         *)
(***************************************************************************)
Policies == {NoneArg, Str("IGNORE"), Str("REPLACE")}

\* the explicit join mappings the program can pass: none, or the other
\* table on the condition it holds
ExplicitJoins(table) ==
    {<< >>} \cup (IF IsCondition(expr)
                  THEN {<<[k |-> t, v |-> expr]>> : t \in DOMAIN tables \ {table}}
                  ELSE {})

\* Table.insert(row, where=, join=, or_=)
TableInsertQualified(table, row, where, join, or_) ==
    /\ Len(row) > 0
    /\ Execute(Qualified(Insert(table, row, << >>, CURRENT_PLACEHOLDER), where, join, or_))

InsertNext ==
    \/ \E x \in ExprColumns : \E op \in ComparisonOps : \E lit \in Literals :
           BuildComparison(x, op, lit)
    \/ \E table \in DOMAIN tables : \E row \in Mappings(table, Values, 1) :
           \E where \in Conditions : \E join \in ExplicitJoins(table) :
               \E or_ \in Policies :
                   TableInsertQualified(table, row, where, join, or_)

InsertSpec == ExprInit /\ [][InsertNext]_vars

(***************************************************************************)
(* Properties of the clauses of an Insert                                  *)
(***************************************************************************)
RenderedInsert == stmt # NoStatement /\ stmt.s.kind = "Insert" /\ stmt.error = ""

\* the tokens of the first clause up to the table
InsertHead(s) ==
    <<Kw("INSERT")>> \o (IF s.or_ = NoneArg THEN << >> ELSE <<Kw("OR"), Text(s.or_)>>)
    \o <<Kw("INTO"), TableArg(s.table)>>

\* C15: the clauses of a rendered Insert hold no FROM, JOIN or WHERE clause,
\* whatever where=, join= and row values it was built with, and the first
\* clause starts INSERT [OR policy] INTO table with the policy as it was given
C15_InsertHasNoFromJoinWhere ==
    RenderedInsert =>
        /\ \A i \in DOMAIN Heads : Heads[i] \notin {"FROM", "JOIN", "WHERE"}
        /\ SubSeq(stmt.clauses[1], 1, Len(InsertHead(stmt.s))) = InsertHead(stmt.s)

(***************************************************************************)
(* Properties of the arguments of the constructor                          *)
(***************************************************************************)
Constructs == last_op.op = "Expression"

\* an argument that is an Expression, Column, Table, None, int, float or str
Supported(arg) ==
    \/ arg.kind \in {"expr", "col", "table", "none"}
    \/ arg.kind = "lit" /\ arg.type \in {"int", "float", "str"}

Keyword(arg) == arg.kind = "lit" /\ arg.type = "str" /\ arg.v \in _literals

\* the positions of the arguments that are bound: the numbers and the
\* strings outside the whitelist
BoundArgs(args) == {i \in DOMAIN args : args[i].kind = "lit" /\ ~Keyword(args[i])}

\* C16: Expression(*args) with an argument that is no Expression, Column,
\* Table, None, int, float or str raises SyntaxError and makes no Expression;
\* otherwise it makes one where None is the keyword NULL and a string of the
\* whitelist is itself, and only the other numbers and strings are bound to
\* placeholders
C16_ConstructorArguments ==
    Constructs =>
        LET args == last_op.x.args
        IN  IF \E i \in DOMAIN args : ~Supported(args[i])
            THEN last_op.error = "SyntaxError" /\ last_op.result = NoExpr
            ELSE /\ last_op.error = ""
                 /\ \A i \in DOMAIN args :
                        /\ args[i] = NoneArg => last_op.result.tokens[i] = Kw("NULL")
                        /\ Keyword(args[i]) => last_op.result.tokens[i] = Kw(args[i].v)
                        /\ last_op.result.tokens[i].kind = "ph" <=> i \in BoundArgs(args)
                 /\ Cardinality(DOMAIN last_op.result.placeholders)
                        = Cardinality(BoundArgs(args))

\* Expression(None, '=', True) was called and raised SyntaxError
C16_Witness ==
    /\ Constructs
    /\ last_op.x.args = <<NoneArg, Str("="), Other("bool")>>
    /\ last_op.error = "SyntaxError"
    /\ objects = << >>

(***************************************************************************)
(* Properties of the order in which the resolver tries its tables          *)
(***************************************************************************)
\* the attempts for one target, in order: each available table in the order
\* of the list, forward and then reverse
Attempts(available_tables) ==
    [k \in 1..(2 * Len(available_tables)) |->
        [a |-> available_tables[(k + 1) \div 2], reverse |-> k % 2 = 0]]

\* what the attempt returns
Attempt(at, target, joins) ==
    _implicit_join_helper(at.a, target, joins, at.reverse, {})

\* the attempts that reach the target: it is a key of what they return
Reaching(available_tables, target, joins) ==
    {k \in DOMAIN Attempts(available_tables) :
        HasKey(Attempt(Attempts(available_tables)[k], target, joins).joins, target)}

Least(S) == CHOOSE k \in S : \A j \in S : k <= j

RECURSIVE Adopted(_, _, _, _)
\* the joins after the targets from i on, r being the attempts that reach
\* target i: those of the first of them are taken
AdoptedFrom(r, targets, i, joins, available_tables) ==
    IF r = {} THEN joins
    ELSE Adopted(targets, i + 1,
                 Attempt(Attempts(available_tables)[Least(r)], targets[i], joins).joins,
                 Append(available_tables, targets[i]))

Adopted(targets, i, joins, available_tables) ==
    IF i > Len(targets) THEN joins
    ELSE IF targets[i] \in Range(available_tables)
    THEN Adopted(targets, i + 1, joins, available_tables)
    ELSE AdoptedFrom(Reaching(available_tables, targets[i], joins),
                     targets, i, joins, available_tables)

\* C17: the joins implicit_join returns are those got by taking, for each
\* target that is not yet available, the result of the first attempt that
\* reaches it, the attempts going through the available tables in the order
\* start table, keys of prior_joins, targets resolved before, and for each
\* table forward before reverse
C17_FirstReachingAttemptWins ==
    (join_call.active /\ join_call.result.error = "") =>
        join_call.result.joins
            = Adopted(join_call.targets, 1, join_call.prior,
                      <<join_call.start>> \o Keys(join_call.prior))

\* a call where the first attempt does not reach the target and two later
\* ones do, with joins that differ: those of the earlier one are returned
C17_Witness ==
    /\ join_call.active
    /\ join_call.result.error = ""
    /\ Len(join_call.targets) = 1
    /\ LET available_tables == <<join_call.start>> \o Keys(join_call.prior)
           target == join_call.targets[1]
           r == Reaching(available_tables, target, join_call.prior)
       IN  /\ target \notin Range(available_tables)
           /\ r # {}
           /\ Least(r) > 1
           /\ \E k \in r :
                  Attempt(Attempts(available_tables)[k], target, join_call.prior).joins
                      # join_call.result.joins
           /\ join_call.result.joins
                  = Attempt(Attempts(available_tables)[Least(r)], target,
                            join_call.prior).joins

(***************************************************************************)
(* The metadata of an attached table.  engine is the table in SQLite: its  *)
(* columns in the order of their cid.  _columns maps each name to the      *)
(* Column object of the Table, with the _info that object has cached;      *)
(* _info, _schema and _foreign_keys are the cached properties of the       *)
(* Table.  read is the last property read: what the program got and what   *)
(* the engine holds.  The column c1 carries the table's foreign key, which *)
(* SQLite refuses to drop.  altered is the outcome of the last add or drop *)
(* of a column: the operation, its item, the error it raised ("" if none)  *)
(* and the mapping's names before it; rejections counts the alterations    *)
(* that raised, and renamed tells that some column was added under a name  *)
(* of its own, other than the item it was assigned to.                     *)
(***************************************************************************)
MaxAlterations == 3

ColumnNames == {"a", "b", "c1", "d"}

ForeignKeyColumn == "c1"

NoCache == [kind |-> "absent"]

Cached(v) == [kind |-> "cached", v |-> v]

NoRead == [kind |-> "none"]

NoAlteration == [op |-> "none"]

\* Column(constraints, name = _name) as the table holds it
Column(_name) == [_info |-> NoCache, _name |-> _name]

\* the exception a property read raised
ReadRaised(error) == [kind |-> "raised", error |-> error]

\* PRAGMA TABLE_INFO: a row for each column, the cid being its position
PragmaTableInfo(engine) == [i \in DOMAIN engine |-> [cid |-> i - 1, name |-> engine[i]]]

\* SELECT sql FROM sqlite_schema: the CREATE TABLE text, as what it says
SqliteSchema(engine) ==
    [columns |-> engine, foreign_keys |-> Range(engine) \cap {ForeignKeyColumn}]

\* db.create_table('t1', a=..., b=..., c1=..., foreign_keys={'c1': t2.id}):
\* the constructor sets _foreign_keys and attaching the table reads _schema
CreatedTable ==
    [kind |-> "table",
     engine |-> <<"a", "b", "c1">>,
     _columns |-> [n \in {"a", "b", "c1"} |-> Column(n)],
     _info |-> NoCache,
     _schema |-> Cached(SqliteSchema(<<"a", "b", "c1">>)),
     _foreign_keys |-> Cached({ForeignKeyColumn}),
     alterations |-> 0,
     altered |-> NoAlteration,
     rejections |-> 0,
     renamed |-> FALSE,
     read |-> NoRead]

\* Table._clear_cache
_clear_cache(t) == [t EXCEPT !._foreign_keys = NoCache, !._schema = NoCache, !._info = NoCache]

\* Table._info: [value, t], t being the table after the read
_info(t) ==
    IF t._info # NoCache THEN [value |-> t._info.v, t |-> t]
    ELSE [value |-> PragmaTableInfo(t.engine),
          t |-> [t EXCEPT !._info = Cached(PragmaTableInfo(t.engine))]]

\* Table._schema
_schema(t) ==
    IF t._schema # NoCache THEN [value |-> t._schema.v, t |-> t]
    ELSE [value |-> SqliteSchema(t.engine),
          t |-> [t EXCEPT !._schema = Cached(SqliteSchema(t.engine))]]

\* Table._foreign_keys, schema being what self._schema gives: the columns
\* that have a FOREIGN KEY clause, each looked up with self[...], which
\* raises when the mapping does not have the name
ForeignKeysFrom(t, schema) ==
    IF t._foreign_keys # NoCache THEN [value |-> t._foreign_keys.v, t |-> t]
    ELSE IF ~(schema.value.foreign_keys \subseteq DOMAIN t._columns)
    THEN [value |-> ReadRaised("AttributeError"), t |-> schema.t]
    ELSE [value |-> schema.value.foreign_keys,
          t |-> [schema.t EXCEPT !._foreign_keys = Cached(schema.value.foreign_keys)]]

\* the row of the column in the table's _info
InfoRow(info, name) == info[CHOOSE i \in DOMAIN info : info[i].name = name]

\* Column._info of the column the mapping holds under name, info being what
\* self._table._info gives: the row of the column's own _name
ColumnInfoFrom(t, name, info) ==
    IF t._columns[name]._info # NoCache
    THEN [value |-> t._columns[name]._info.v, t |-> t]
    ELSE [value |-> InfoRow(info.value, t._columns[name]._name),
          t |-> [info.t EXCEPT !._columns[name]._info
                                   = Cached(InfoRow(info.value, t._columns[name]._name))]]

\* the program reads a property and gets res.value; the engine holds current
Read(property, res, current) ==
    /\ attached # NoTable
    /\ attached' = [res.t EXCEPT !.read = [property |-> property, value |-> res.value,
                                           current |-> current]]
    /\ UNCHANGED <<tables, join_call, CURRENT_PLACEHOLDER, expr, last_op, stmt, objects, database, threads>>

ReadTableInfo == Read("Table._info", _info(attached), PragmaTableInfo(attached.engine))

ReadTableSchema == Read("Table._schema", _schema(attached), SqliteSchema(attached.engine))

ReadTableForeignKeys ==
    Read("Table._foreign_keys", ForeignKeysFrom(attached, _schema(attached)),
         SqliteSchema(attached.engine).foreign_keys)

\* column.cid, column.type, ...: Column.__getattr__ reads Column._info
ReadColumnInfo(name) ==
    /\ attached # NoTable
    /\ name \in DOMAIN attached._columns
    /\ Read("Column._info", ColumnInfoFrom(attached, name, _info(attached)),
            InfoRow(PragmaTableInfo(attached.engine), attached._columns[name]._name))

\* what an alteration leaves in altered
Altered(t, op, item, error) ==
    [op |-> op, item |-> item, error |-> error, before |-> DOMAIN t._columns]

\* the name the column gets: value._name, or item when the column has none
Named(item, _name) == IF _name = "" THEN item ELSE _name

\* ALTER TABLE ADD COLUMN: SQLite refuses a name the table has
AddColumnRejected(engine, name) == name \in Range(engine)

\* ALTER TABLE DROP COLUMN: SQLite refuses a name the table does not have and
\* a column that is in a foreign key
DropColumnRejected(engine, name) == name \notin Range(engine) \/ name = ForeignKeyColumn

\* table[item] = Column(..., name = _name): the ALTER TABLE comes first, and
\* when it raises nothing else is done
__setitem__(item, _name) ==
    /\ attached # NoTable
    /\ attached.alterations < MaxAlterations
    /\ attached' =
           IF AddColumnRejected(attached.engine, Named(item, _name))
           THEN [attached EXCEPT !.alterations = @ + 1,
                                 !.altered = Altered(attached, "add", item, "OperationalError"),
                                 !.rejections = @ + 1,
                                 !.renamed = @ \/ Named(item, _name) # item,
                                 !.read = NoRead]
           ELSE [_clear_cache(attached)
                    EXCEPT !.engine = Append(@, Named(item, _name)),
                           !._columns = (item :> Column(Named(item, _name))) @@ @,
                           !.alterations = @ + 1,
                           !.altered = Altered(attached, "add", item, ""),
                           !.renamed = @ \/ Named(item, _name) # item,
                           !.read = NoRead]
    /\ UNCHANGED <<tables, join_call, CURRENT_PLACEHOLDER, expr, last_op, stmt, objects, database, threads>>

\* del table[item]: the name is popped from the mapping (a KeyError when it
\* is not there), then comes the ALTER TABLE, and the caches are cleared
\* when it has not raised
__delitem__(item) ==
    /\ attached # NoTable
    /\ attached.alterations < MaxAlterations
    /\ attached' =
           IF item \notin DOMAIN attached._columns
           THEN [attached EXCEPT !.alterations = @ + 1,
                                 !.altered = Altered(attached, "drop", item, "KeyError"),
                                 !.rejections = @ + 1,
                                 !.read = NoRead]
           ELSE IF DropColumnRejected(attached.engine, item)
           THEN [attached EXCEPT !._columns = [n \in DOMAIN @ \ {item} |-> @[n]],
                                 !.alterations = @ + 1,
                                 !.altered = Altered(attached, "drop", item, "OperationalError"),
                                 !.rejections = @ + 1,
                                 !.read = NoRead]
           ELSE [_clear_cache(attached)
                    EXCEPT !.engine = SelectSeq(@, LAMBDA n : n # item),
                           !._columns = [n \in DOMAIN @ \ {item} |-> @[n]],
                           !.alterations = @ + 1,
                           !.altered = Altered(attached, "drop", item, ""),
                           !.read = NoRead]
    /\ UNCHANGED <<tables, join_call, CURRENT_PLACEHOLDER, expr, last_op, stmt, objects, database, threads>>

TableInit ==
    /\ tables = ExprTables
    /\ join_call = NoCall
    /\ CURRENT_PLACEHOLDER = 0
    /\ expr = NoExpr
    /\ last_op = NoOp
    /\ stmt = NoStatement
    /\ objects = << >>
    /\ attached = CreatedTable
    /\ database = NoDatabase
    /\ threads = NoThreads

TableNext ==
    \/ ReadTableInfo
    \/ ReadTableSchema
    \/ ReadTableForeignKeys
    \/ \E name \in ColumnNames : ReadColumnInfo(name)
    \/ \E item \in ColumnNames, _name \in {"", "d"} : __setitem__(item, _name)
    \/ \E item \in ColumnNames : __delitem__(item)

TableSpec == TableInit /\ [][TableNext]_vars

(***************************************************************************)
(* Properties of the cached metadata                                       *)
(***************************************************************************)
\* C18: whatever columns were added and dropped before, each of them with
\* success, a read of the
\* table's schema, foreign keys or column info, or of a column's metadata,
\* gives what the engine holds at the time of the read
C18_ReadsReflectEngine ==
    (attached # NoTable /\ attached.read # NoRead /\ attached.rejections = 0) =>
        attached.read.value = attached.read.current

(***************************************************************************)
(* The placeholder counter on its own: the program has drawn any number of *)
(* placeholders before (the counter starts within MaxDrawn of 0 or of      *)
(* MAX_PLACEHOLDER) and calls next_placeholder again and again.            *)
(***************************************************************************)
MaxDrawn == 60

\* the counters the model follows: the first and the last MaxDrawn ones
Drawn(c) == c <= MaxDrawn \/ c >= MAX_PLACEHOLDER - MaxDrawn

PlaceholderInit ==
    /\ tables = ExprTables
    /\ join_call = NoCall
    /\ CURRENT_PLACEHOLDER \in {0} \cup {MAX_PLACEHOLDER - n : n \in 0..MaxDrawn}
    /\ expr = NoExpr
    /\ last_op = NoOp
    /\ stmt = NoStatement
    /\ objects = << >>
    /\ attached = NoTable
    /\ database = NoDatabase
    /\ threads = NoThreads

\* placeholder = next_placeholder(): result is the ':n' returned
NextPlaceholder ==
    /\ Drawn(next_placeholder(CURRENT_PLACEHOLDER))
    /\ CURRENT_PLACEHOLDER' = next_placeholder(CURRENT_PLACEHOLDER)
    /\ last_op' = [op |-> "next_placeholder", x |-> NoneArg, y |-> NoneArg,
                   result |-> Placeholder(next_placeholder(CURRENT_PLACEHOLDER)),
                   error |-> "", before |-> CURRENT_PLACEHOLDER]
    /\ UNCHANGED <<tables, join_call, expr, stmt, objects, attached, database, threads>>

PlaceholderNext == NextPlaceholder

PlaceholderSpec == PlaceholderInit /\ [][PlaceholderNext]_vars

(***************************************************************************)
(* Properties of the placeholder counter                                   *)
(***************************************************************************)
\* C19: a placeholder next_placeholder returns is ':n' with n in
\* 1..9,999,999; n is one more than the n of the call before, and 1 when
\* the call before returned 9,999,999 (before is the counter the call
\* found, which is what the call before returned)
C19_PlaceholderRangeAndWrap ==
    last_op.op = "next_placeholder" =>
        /\ last_op.result.key \in 1..9999999
        /\ last_op.result.key = IF last_op.before = 9999999 THEN 1
                                ELSE last_op.before + 1

(***************************************************************************)
(* Rendering again: the program keeps the statement it executed and reads  *)
(* str(stmt) and stmt.placeholders once more, up to MaxRenders times in    *)
(* all.  The list of necessary tables comes in the order it came in        *)
(* before: the set it is made from holds the same Table objects.           *)
(***************************************************************************)
MaxRenders == 3

\* the statement after one more reading, s being its fields afterwards
Reread(r, s) ==
    [r EXCEPT !.s = s,
              !.renders = @ + 1,
              !.clauses = clauses(r.s, r.order).clauses,
              !.placeholders = placeholders(s).ph,
              !.error = IF clauses(r.s, r.order).error # ""
                        THEN clauses(r.s, r.order).error ELSE placeholders(s).error]

\* str(stmt), then stmt.placeholders
RenderAgain ==
    /\ stmt # NoStatement
    /\ stmt.renders < MaxRenders
    /\ stmt' = Reread(stmt, RenderedFields(stmt.s, implicit_join(stmt.s.table, stmt.order,
                                                                 stmt.s.join)))
    /\ CURRENT_PLACEHOLDER'
           = JoinCounter(implicit_join(stmt.s.table, stmt.order, stmt.s.join).joins,
                         stmt.s.join, 1, CURRENT_PLACEHOLDER)
    /\ UNCHANGED <<tables, join_call, expr, last_op, objects, attached, database, threads>>

RenderNext ==
    \/ \E col \in AutojoinColumns : \E op \in ComparisonOps : \E lit \in Literals :
           BuildComparison(col, op, lit)
    \/ \E table \in DOMAIN tables : \E where \in Conditions :
           \E kwargs \in Mappings(table, StmtLiterals, 1) :
               TableSelect(table, where, NoExpr, kwargs)
    \/ \E table \in DOMAIN tables : \E where \in Conditions :
           \E raw_updates \in Mappings(table, Values, 1) :
               TableUpdate(table, raw_updates, where, << >>)
    \/ \E table \in DOMAIN tables : \E where \in Conditions : TableDelete(table, where)
    \/ \E table \in DOMAIN tables : \E row \in Mappings(table, StmtLiterals, 1) :
           \E join \in ExplicitJoins(table) :
               TableInsertQualified(table, row, NoExpr, join, NoneArg)
    \/ RenderAgain

RenderSpec == AutojoinInit /\ [][RenderNext]_vars

ConjoinedDisjunction ==
    /\ last_op.op = "&"
    /\ last_op.error = ""
    /\ IsOr(last_op.x.e) \/ IsOr(last_op.y.e)

\* C21: when & has combined a disjunction A | B with a condition C, on
\* either side, the text rendered for the result is true, as SQL reads it,
\* exactly when the text of the one operand and the text of the other are
\* both true, that is when (A OR B) AND C is, under every truth assignment
\* of the comparisons
C21_GroupingKept ==
    ConjoinedDisjunction =>
        \A asg \in TruthAssignments(last_op.result, last_op.result) :
            Truth(last_op.result, asg)
                = (Truth(last_op.x.e, asg) /\ Truth(last_op.y.e, asg))

(***************************************************************************)
(* Properties of the size of the join map                                  *)
(***************************************************************************)
\* implicit_join(start, targets, {}) returned, and the start table declares
\* a foreign key to every target
DirectlyJoinable ==
    /\ JoinReturned
    /\ join_call.prior = << >>
    /\ join_call.start \notin Range(join_call.targets)
    /\ Range(join_call.targets) \subseteq References(join_call.start)

\* C22: when the start table has a direct foreign key to every target, the
\* join map implicit_join returns has the targets as its only keys: no table
\* of a longer foreign-key chain to a target is joined, in whatever order
\* the foreign keys were declared
C22_FewestJoins ==
    DirectlyJoinable => Range(Keys(join_call.result.joins)) \subseteq Range(join_call.targets)

(***************************************************************************)
(* Type inference.  type_ yields [type, error]: the Python type it returns *)
(* by name, or the error it raises.  In the typed schema the columns 0, 1  *)
(* and 2 of a table are declared INTEGER, REAL and TEXT.                   *)
(***************************************************************************)
MaxTyped == 2

TypeColumns == {Col("t1", IdColumn), Col("t1", 1), Col("t1", 2)}

\* Column.type: the type PRAGMA TABLE_INFO gives for the column
DeclaredType(col) ==
    CASE col.name = IdColumn -> "INTEGER"
      [] col.name = 1 -> "REAL"
      [] OTHER -> "TEXT"

Inferred(ty) == [type |-> ty, error |-> ""]

InferenceRaised(error) == [type |-> "", error |-> error]

\* tokens[1] of a three-token Expression as type_ reads it: the operator
\* when it is whitelisted, the placeholder ':n' when it was bound
OperatorToken(tok) == IF tok.kind = "kw" THEN tok.s ELSE ":"

RECURSIVE type_(_)
type_(value) ==
    IF value.kind = "col"
    THEN CASE DeclaredType(value) = "INTEGER" -> Inferred("int")
           [] DeclaredType(value) = "REAL" -> Inferred("float")
           [] DeclaredType(value) = "TEXT" -> Inferred("str")
           [] DeclaredType(value) = "BLOB" -> Inferred("bytes")
           [] OTHER -> InferenceRaised("NotImplementedError")
    ELSE IF value.kind = "expr"
    THEN LET e == value.e
         IN  IF e.func = NoFunc /\ Len(e.tokens) = 3 /\ e.tokens[2].kind \in {"kw", "ph"}
             THEN LET operator == OperatorToken(e.tokens[2])
                  IN  IF operator = "/" THEN Inferred("float")
                      ELSE IF operator = "%" THEN Inferred("int")
                      ELSE IF operator \in {"LIKE", "AND", "OR", "=", "==", ">", ">=",
                                            "<", "<=", "IN", "BETWEEN"}
                      THEN Inferred("bool")
                      ELSE IF operator \in {"*", "+", "-"}
                      THEN InferenceRaised("NameError")
                      ELSE type_(e.args[1])
             ELSE IF e.func \in {"COUNT", "LENGTH", "RANDOM"} THEN Inferred("int")
             ELSE IF e.func \in {"UPPER", "LOWER", "SUBSTR", "LTRIM", "RTRIM", "TRIM",
                                 "REPLACE", "TYPEOF"}
             THEN Inferred("str")
             ELSE IF e.func \in {"MAX", "MIN", "SUM", "ABS"} THEN type_(e.args[1])
             ELSE IF e.func = "EXISTS" THEN Inferred("bool")
             ELSE InferenceRaised("NotImplementedError")
    ELSE IF value.kind = "lit" THEN Inferred(value.type)
    ELSE IF value.kind = "none" THEN Inferred("NoneType")
    ELSE IF value.kind = "table" THEN Inferred("Table")
    ELSE Inferred(value.type)

\* self + other
__add__(self, other, c) ==
    LET othertype_ == type_(other)
        selftype_ == type_(self)
    IN  IF othertype_.error # "" THEN Failed(othertype_.error, c)
        ELSE IF selftype_.error # "" THEN Failed(selftype_.error, c)
        ELSE IF selftype_.type \in {"int", "float"} /\ othertype_.type \in {"int", "float"}
        THEN Expression(<<self, Str("+"), other>>, NoFunc, NoPrefix, c)
        ELSE IF selftype_.type = "str" /\ othertype_.type = "str"
        THEN Expression(<<self, Str("||"), other>>, NoFunc, NoPrefix, c)
        ELSE Failed("SyntaxError", c)

__mul__(self, other, c) == Expression(<<self, Str("*"), other>>, NoFunc, NoPrefix, c)

__div__(self, other, c) == Expression(<<self, Str("/"), other>>, NoFunc, NoPrefix, c)

\* self % other
__mod__(self, other, c) ==
    IF type_(self).error # "" THEN Failed(type_(self).error, c)
    ELSE IF type_(self).type = "str"
    THEN Expression(<<self, Str("LIKE"), other>>, NoFunc, NoPrefix, c)
    ELSE Expression(<<self, Str("%"), other>>, NoFunc, NoPrefix, c)

\* the SQL operator each comparison overload writes: ==, !=, <, >, <=, >=
ComparisonOverloads == {"=", "<>", "<", ">", "<=", ">="}

ArithmeticOverloads == {"+", "-", "*", "%"}

\* the operands a typed program has at hand: the columns and its objects
TypedOperands == TypeColumns \cup {Object(i) : i \in DOMAIN objects}

TypedStore(op, x, y, res) == Len(objects) < MaxTyped /\ Store(op, x, y, res)

\* x == lit, x != lit, x < lit, ...
TypedCompare(x, op, lit) ==
    TypedStore(op, x, lit, Comparison(x, op, lit, CURRENT_PLACEHOLDER))

\* x + lit, x - lit, x * lit, x % lit
TypedArithmetic(x, op, lit) ==
    TypedStore(op, x, lit,
               CASE op = "+" -> __add__(x, lit, CURRENT_PLACEHOLDER)
                 [] op = "-" -> __sub__(x, lit, CURRENT_PLACEHOLDER)
                 [] op = "*" -> __mul__(x, lit, CURRENT_PLACEHOLDER)
                 [] OTHER -> __mod__(x, lit, CURRENT_PLACEHOLDER))

\* x / lit finds no __truediv__ and raises TypeError; x.__div__(lit) is the
\* method called by its name
Divide(x, lit, by_name) ==
    TypedStore("/", x, lit,
               IF by_name THEN __div__(x, lit, CURRENT_PLACEHOLDER)
               ELSE Failed("TypeError", CURRENT_PLACEHOLDER))

\* type_(objects[i])
InferType(i) ==
    /\ last_op' = [op |-> "type_", x |-> Object(i), y |-> NoneArg,
                   result |-> IF type_(Object(i)).error = ""
                              THEN [kind |-> "type", type |-> type_(Object(i)).type]
                              ELSE NoExpr,
                   error |-> type_(Object(i)).error, before |-> CURRENT_PLACEHOLDER]
    /\ UNCHANGED <<tables, join_call, CURRENT_PLACEHOLDER, expr, stmt, objects, attached, database, threads>>

TypeNext ==
    \/ \E x \in TypedOperands \ {Col("t1", 1), Col("t1", 2)} :
           \E op \in ComparisonOverloads : \E lit \in Literals : TypedCompare(x, op, lit)
    \/ \E x \in TypedOperands : \E op \in ArithmeticOverloads : \E lit \in Literals :
           TypedArithmetic(x, op, lit)
    \/ \E x \in TypedOperands : \E lit \in Literals : \E by_name \in BOOLEAN :
           Divide(x, lit, by_name)
    \/ \E i, j \in DOMAIN objects : Len(objects) < MaxTyped /\ And(i, j)
    \/ \E i, j \in DOMAIN objects : Len(objects) < MaxTyped /\ Or(i, j)
    \/ \E i \in DOMAIN objects : InferType(i)

TypeSpec == ExprInit /\ [][TypeNext]_vars

(***************************************************************************)
(* Properties of type inference                                            *)
(***************************************************************************)
IsBinary(e) == e.func = NoFunc /\ (IsOr(e) \/ (Len(e.args) = 3 /\ IsStr(e.args[2])))

\* the operator of a binary-operator Expression and its two operands
BinaryOperator(e) == IF IsOr(e) THEN "OR" ELSE e.args[2].v

LeftOperand(e) == IF IsOr(e) THEN e.args[2] ELSE e.args[1]

RightOperand(e) == IF IsOr(e) THEN e.args[6] ELSE e.args[3]

\* the type the inference table gives: a column by its declared type, a
\* literal by its own, a binary-operator Expression by its operator
RECURSIVE TableType(_)
TableType(v) ==
    IF v.kind = "col"
    THEN CASE DeclaredType(v) = "INTEGER" -> "int"
           [] DeclaredType(v) = "REAL" -> "float"
           [] OTHER -> "str"
    ELSE IF v.kind = "lit" THEN v.type
    ELSE LET op == BinaryOperator(v.e)
         IN  IF op = "/" THEN "float"
             ELSE IF op = "%" THEN "int"
             ELSE IF op \in {"=", "<>", "<", ">", "<=", ">=", "LIKE", "IN", "AND", "OR"}
             THEN "bool"
             ELSE IF "float" \in {TableType(LeftOperand(v.e)), TableType(RightOperand(v.e))}
             THEN "float"
             ELSE "int"

\* type_ was applied to a binary-operator Expression of the inference table
\* whose operands are columns and literals
TypeInferred ==
    /\ last_op.op = "type_"
    /\ IsBinary(last_op.x.e)
    /\ BinaryOperator(last_op.x.e) \in {"/", "%", "=", "<>", "<", ">", "<=", ">=", "LIKE",
                                        "IN", "AND", "OR", "+", "-", "*"}
    /\ BinaryOperator(last_op.x.e) \in {"+", "-", "*"} =>
           /\ LeftOperand(last_op.x.e).kind \in {"col", "lit"}
           /\ RightOperand(last_op.x.e).kind \in {"col", "lit"}

\* C23: type_ of a binary-operator Expression built by the operator
\* overloads raises nothing and returns the type of the inference table:
\* float for '/', int for '%', bool for the comparisons and for AND and OR,
\* and for '+', '-', '*' float if an operand infers float and int otherwise
C23_InferenceTable ==
    TypeInferred =>
        /\ last_op.error = ""
        /\ last_op.result = [kind |-> "type", type |-> TableType(last_op.x)]

(***************************************************************************)
(* The Database and its connection.  database holds the fields of the      *)
(* Database object, the engine's side of its connection (pending: the      *)
(* changes executed on the connection and not committed; committed: the    *)
(* changes in the file), the with-blocks the program is inside of, and     *)
(* the last operation with the state it started from.  A connection that   *)
(* is closed, or that loses its last reference, loses its pending changes. *)
(***************************************************************************)
MaxChanges == 3

MaxBlocks == 2

Outcome(db, error) == [db |-> db, error |-> error]

\* Database.connect: sqlite3.connect makes a connection with nothing pending
connect(db, reuse_existing) ==
    IF db._connection /\ reuse_existing THEN db
    ELSE [db EXCEPT !._connection = TRUE, !.pending = 0]

\* the property Database.connection
connection(db) ==
    IF db._connection THEN Outcome(db, "")
    ELSE IF db._autoconnect THEN Outcome(connect(db, TRUE), "")
    ELSE Outcome(db, "AttributeError")

\* Database.commit
commit(db) ==
    IF connection(db).error # "" THEN connection(db)
    ELSE Outcome([connection(db).db EXCEPT !.committed = @ + connection(db).db.pending,
                                           !.pending = 0], "")

\* Database.rollback
rollback(db) ==
    IF connection(db).error # "" THEN connection(db)
    ELSE Outcome([connection(db).db EXCEPT !.pending = 0], "")

\* self.connection.close(); self._connection = None
Closed(opened) ==
    IF opened.error # "" THEN opened
    ELSE Outcome([opened.db EXCEPT !._connection = FALSE, !.pending = 0], "")

\* what disconnect does before it closes: commit, roll back, or neither
Settled(db, commit_) ==
    IF commit_ = "True" \/ (commit_ = "AUTO" /\ db._autocommit) THEN commit(db)
    ELSE IF commit_ = "False" THEN rollback(db)
    ELSE Outcome(db, "")

\* Database.disconnect(commit)
disconnect(db, commit_) ==
    IF Settled(db, commit_).error # "" THEN Settled(db, commit_)
    ELSE Closed(connection(Settled(db, commit_).db))

\* an __exit__ that takes no notice of the exception
exit_unaware(db, exception) == disconnect(db, "AUTO")

\* Database.__exit__
__exit__(db, exception) ==
    IF exception THEN disconnect(db, "False") ELSE disconnect(db, "AUTO")

\* Database.execute of a statement that changes rows
execute(db) ==
    IF connection(db).error # "" THEN connection(db)
    ELSE Outcome([connection(db).db EXCEPT !.pending = @ + 1], "")

\* database after the operation op with outcome res
Operated(op, exception, res) ==
    [res.db EXCEPT !.last = [op |-> op, exception |-> exception, error |-> res.error,
                             connected |-> database._connection,
                             pending |-> database.pending,
                             committed |-> database.committed]]

Operate(op, exception, res) ==
    /\ database # NoDatabase
    /\ database' = Operated(op, exception, res)
    /\ UNCHANGED <<tables, join_call, CURRENT_PLACEHOLDER, expr, last_op, stmt, objects,
                   attached, threads>>

\* with db: ...
Enter ==
    /\ database # NoDatabase
    /\ database.blocks < MaxBlocks
    /\ Operate("__enter__", FALSE,
               Outcome([connect(database, TRUE) EXCEPT !.blocks = @ + 1], ""))

\* the with-block ends, normally or because of an exception
Exit(exception) ==
    /\ database # NoDatabase
    /\ database.blocks > 0
    /\ Operate("__exit__", exception,
               Outcome([__exit__(database, exception).db EXCEPT !.blocks = @ - 1],
                       __exit__(database, exception).error))

ExecuteChange ==
    /\ database # NoDatabase
    /\ database.pending + database.committed < MaxChanges
    /\ Operate("execute", FALSE, execute(database))

Commit == Operate("commit", FALSE, commit(database))

Rollback == Operate("rollback", FALSE, rollback(database))

Connect(reuse_existing) ==
    Operate("connect", FALSE, Outcome(connect(database, reuse_existing), ""))

Disconnect(commit_) == Operate("disconnect", FALSE, disconnect(database, commit_))

\* Database(path, autoconnect, autocommit): connected at once when the file
\* exists and autoconnect is set
DatabaseInit ==
    /\ tables = ExprTables
    /\ join_call = NoCall
    /\ CURRENT_PLACEHOLDER = 0
    /\ expr = NoExpr
    /\ last_op = NoOp
    /\ stmt = NoStatement
    /\ objects = << >>
    /\ attached = NoTable
    /\ threads = NoThreads
    /\ \E autoconnect, autocommit, exists \in BOOLEAN :
           database = [_autoconnect |-> autoconnect, _autocommit |-> autocommit,
                       _connection |-> exists /\ autoconnect,
                       pending |-> 0, committed |-> 0, blocks |-> 0,
                       last |-> [op |-> "__init__", exception |-> FALSE, error |-> "",
                                 connected |-> FALSE, pending |-> 0, committed |-> 0]]

DatabaseNext ==
    \/ Enter
    \/ \E exception \in BOOLEAN : Exit(exception)
    \/ ExecuteChange
    \/ Commit
    \/ Rollback
    \/ \E reuse_existing \in BOOLEAN : Connect(reuse_existing)
    \/ \E commit_ \in {"AUTO", "True", "False"} : Disconnect(commit_)

DatabaseSpec == DatabaseInit /\ [][DatabaseNext]_vars

(***************************************************************************)
(* Properties of the context manager                                       *)
(***************************************************************************)
Left == database # NoDatabase /\ database.last.op = "__exit__"

\* C24: when a with-block of the Database has been left, the Database holds
\* no connection and nothing is pending; if it was left because of an
\* exception the file has the changes it had before, and if it was left
\* normally the file has gained the pending changes exactly when autocommit
\* is set.  An execute that finds no connection connects when autoconnect
\* is set and raises AttributeError, connecting nothing, when it is not.
C24_ContextManager ==
    /\ Left =>
           /\ ~database._connection
           /\ database.pending = 0
           /\ database.last.exception => database.committed = database.last.committed
           /\ ~database.last.exception =>
                  database.committed
                      = IF database._autocommit
                        THEN database.last.committed + database.last.pending
                        ELSE database.last.committed
    /\ (database # NoDatabase /\ database.last.op = "execute" /\ ~database.last.connected) =>
           IF database._autoconnect
           THEN database.last.error = "" /\ database._connection
           ELSE database.last.error = "AttributeError" /\ ~database._connection

\* a with-block left because of an exception with a change pending, by a
\* Database with autocommit set
C24_Witness ==
    /\ Left
    /\ database.last.exception
    /\ database._autocommit
    /\ database.last.pending > 0
    /\ database.last.error = ""

(***************************************************************************)
(* Two threads in next_placeholder.  Each thread constructs one            *)
(* Expression with one literal: it tests the global counter, then resets   *)
(* it or loads it and stores the sum, then reads it for the string it      *)
(* returns.  threads[t] is the position of thread t (pc), the value it     *)
(* loaded, and the placeholder it got.                                     *)
(***************************************************************************)
MaxStart == 3

Threads == {1, 2}

ThreadLiterals == <<"Alice", "Bob">>

Moved(t, pc) == [threads EXCEPT ![t].pc = pc]

Step(t, pc) == threads # NoThreads /\ threads[t].pc = pc

\* if CURRENT_PLACEHOLDER > MAX_PLACEHOLDER:
TestCounter(t) ==
    /\ Step(t, "test")
    /\ threads' = Moved(t, IF CURRENT_PLACEHOLDER > MAX_PLACEHOLDER THEN "reset" ELSE "load")
    /\ UNCHANGED <<tables, join_call, CURRENT_PLACEHOLDER, expr, last_op, stmt, objects,
                   attached, database>>

\* CURRENT_PLACEHOLDER = 1
ResetCounter(t) ==
    /\ Step(t, "reset")
    /\ CURRENT_PLACEHOLDER' = 1
    /\ threads' = Moved(t, "return")
    /\ UNCHANGED <<tables, join_call, expr, last_op, stmt, objects, attached, database>>

\* CURRENT_PLACEHOLDER += 1: the global is loaded
LoadCounter(t) ==
    /\ Step(t, "load")
    /\ threads' = [threads EXCEPT ![t].pc = "store", ![t].loaded = CURRENT_PLACEHOLDER]
    /\ UNCHANGED <<tables, join_call, CURRENT_PLACEHOLDER, expr, last_op, stmt, objects,
                   attached, database>>

\* CURRENT_PLACEHOLDER += 1: the sum is stored
StoreCounter(t) ==
    /\ Step(t, "store")
    /\ CURRENT_PLACEHOLDER' = threads[t].loaded + 1
    /\ threads' = Moved(t, "return")
    /\ UNCHANGED <<tables, join_call, expr, last_op, stmt, objects, attached, database>>

\* return f':{CURRENT_PLACEHOLDER}', and self.placeholders[placeholder[1:]] = arg
ReturnPlaceholder(t) ==
    /\ Step(t, "return")
    /\ threads' = [threads EXCEPT ![t].pc = "done", ![t].placeholder = CURRENT_PLACEHOLDER]
    /\ UNCHANGED <<tables, join_call, CURRENT_PLACEHOLDER, expr, last_op, stmt, objects,
                   attached, database>>

\* the counter is where earlier calls have left it
ThreadInit ==
    /\ tables = ExprTables
    /\ join_call = NoCall
    /\ CURRENT_PLACEHOLDER \in (0..MaxStart) \cup ((MAX_PLACEHOLDER - MaxStart)..(MAX_PLACEHOLDER + 1))
    /\ expr = NoExpr
    /\ last_op = NoOp
    /\ stmt = NoStatement
    /\ objects = << >>
    /\ attached = NoTable
    /\ database = NoDatabase
    /\ threads = [t \in Threads |-> [pc |-> "test", loaded |-> 0, placeholder |-> 0]]

ThreadNext ==
    \E t \in Threads :
        \/ TestCounter(t)
        \/ ResetCounter(t)
        \/ LoadCounter(t)
        \/ StoreCounter(t)
        \/ ReturnPlaceholder(t)

ThreadSpec == ThreadInit /\ [][ThreadNext]_vars

(***************************************************************************)
(* Properties of concurrent placeholder allocation                         *)
(***************************************************************************)
\* the placeholders of the Expression thread t has constructed
ThreadPlaceholders(t) == threads[t].placeholder :> ThreadLiterals[t]

\* C25: when both threads have constructed their Expression, the two
\* placeholders they got differ, and the placeholders of the two Expressions
\* merged bind both literals
C25_ConcurrentPlaceholdersDistinct ==
    (threads # NoThreads /\ \A t \in Threads : threads[t].pc = "done") =>
        /\ threads[1].placeholder # threads[2].placeholder
        /\ {Merged(ThreadPlaceholders(1), ThreadPlaceholders(2))[k] :
                k \in DOMAIN Merged(ThreadPlaceholders(1), ThreadPlaceholders(2))}
               = Range(ThreadLiterals)

(***************************************************************************)
(* Properties of termination of the join resolver                          *)
(***************************************************************************)
\* C26: every call of implicit_join ends by returning a join map or by
\* raising the SyntaxError of a join it cannot resolve, whatever the foreign
\* keys are: cycles and tables that reference themselves included, the
\* target reachable or not
C26_ImplicitJoinTerminates ==
    join_call.active => join_call.result.error \in {"", "SyntaxError"}

(***************************************************************************)
(* Properties of the order of the target tables                            *)
(***************************************************************************)
\* what implicit_join returns for the start table and the prior joins of
\* the call when the target tables come in the order given
Reordered(order) == implicit_join(join_call.start, order, join_call.prior)

\* C27: when implicit_join returns a join map, it returns the same map (the
\* same keys with the same conditions, in the same order) for every other
\* order of the same target tables
C27_TargetOrderIrrelevant ==
    JoinReturned =>
        \A order \in Orders(Range(join_call.targets)) :
            /\ Reordered(order).error = ""
            /\ Reordered(order).joins = join_call.result.joins

C29_MappingMatchesEngine ==
    (attached # NoTable /\ ~attached.renamed) =>
        /\ DOMAIN attached._columns = Range(attached.engine)
        /\ attached.altered.op # "none" =>
               /\ attached.altered.error # "" =>
                      DOMAIN attached._columns = attached.altered.before
               /\ (attached.altered.op = "drop" /\ attached.altered.error = "") =>
                      attached.altered.item \notin DOMAIN attached._columns

(***************************************************************************)
(* The order of the JOIN clauses                                           *)
(***************************************************************************)
\* the clauses of the rendered statement that are JOIN clauses
JoinClausesOf(cl) == {i \in DOMAIN cl : cl[i][1] = Kw("JOIN")}

\* the tables whose columns a rendered clause names
ClauseTables(clause) == {clause[i].table : i \in {j \in DOMAIN clause : clause[j].kind = "col"}}

\* the tables that are in the statement at its i-th clause: the table of its
\* FROM clause and the tables of the JOIN clauses up to that one
Introduced(s, cl, i) == {s.table} \cup {cl[j][2].table : j \in {k \in JoinClausesOf(cl) : k <= i}}

\* a statement with autojoin was rendered with JOIN clauses
AutojoinRendered ==
    /\ stmt # NoStatement
    /\ stmt.s.autojoin
    /\ stmt.error = ""
    /\ JoinClausesOf(stmt.clauses) # {}

\* C30: in the clauses rendered for a statement with autojoin, the ON
\* condition of each JOIN clause names columns only of the statement's
\* table, of the tables of the JOIN clauses before it and of the table the
\* clause itself joins
C30_JoinsReferenceEarlierTables ==
    AutojoinRendered =>
        \A i \in JoinClausesOf(stmt.clauses) :
            ClauseTables(stmt.clauses[i]) \subseteq Introduced(stmt.s, stmt.clauses, i)

====
